---- MODULE Spec2Model ----
(***************************************************************************)
(* Model of the incident.io MCP adapter.  Three revisions of the server    *)
(* live in the repository and are modelled side by side:                   *)
(*   "tool"   the MCP tool server (listing in README.md, lines 83-680)     *)
(*   "http"   the express server of src/index.ts                           *)
(*   "legacy" the first express server (unnamed/part_000)                  *)
(* Strings are sequences of one-character strings so that toLowerCase is   *)
(* computed, not assumed.                                                  *)
(***************************************************************************)
EXTENDS Integers, Sequences, FiniteSets, TLC

VARIABLES
    variant,            \* which revision runs: "tool", "http" or "legacy"
    severities,         \* README `severities` / index.ts `severitiesCache`
    incidentTypes,      \* README `incidentTypes` / index.ts `incidentTypesCache`
    incidentStatuses,   \* README `incidentStatuses`
    apiKey,             \* process.env.API_KEY
    proc,               \* the process: "start" (module load), "up", "exit(1)"
    refreshes,          \* the runs of refreshCache so far, in order of their start
    origin,             \* for each cached table, the run that assigned it (0: none)
    upstream,           \* the reference table upstream holds (<<>>: not followed)
    probe,              \* last call of a pure helper: [fn, input, out]
    req,                \* the request being handled: [op, args]
    pc,                 \* where its handler stands: "idle", "await1", "await2", "done"
    loc,                \* the handler's locals that live across an await
    calls,              \* upstream calls issued for this request, in order
    resps,              \* upstream outcomes delivered to this request, in order
    result              \* what the handler returned, sent or threw

cacheVars == <<apiKey, proc, severities, incidentTypes, incidentStatuses, refreshes, origin,
              upstream>>
reqVars == <<req, pc, loc, calls, resps, result>>
vars == <<variant, apiKey, proc, severities, incidentTypes, incidentStatuses, refreshes, origin,
          upstream, probe,
          req, pc, loc, calls, resps, result>>

----------------------------------------------------------------------------
(* Strings and JavaScript values *)

\* JavaScript `undefined` and `null`; shaped like strings so that every
\* optional string stays comparable with every other.
Undefined == <<"#undefined">>
Null == <<"#null">>
EmptyStr == <<>>

\* The strings ids, names and inputs are drawn from.
Strs == { <<"a">>, <<"A">>, <<"b">>, <<"a","B">>, <<"A","b">> }

\* String.prototype.toLowerCase on one character.
LowerChar(c) ==
    CASE c = "A" -> "a"
      [] c = "B" -> "b"
      [] OTHER   -> c

\* String.prototype.toLowerCase.
toLowerCase(s) == [i \in DOMAIN s |-> LowerChar(s[i])]

\* JavaScript truthiness of an optional string: `!x` is Falsy(x).
Falsy(x) == x \in {Undefined, Null, EmptyStr}

\* The nullish test behind `??` and `?.`.
Nullish(x) == x \in {Undefined, Null}

\* Array.prototype.find as an index: the first i with P(seq[i]), or 0.
FindIndex(seq, P(_)) ==
    IF \E i \in DOMAIN seq : P(seq[i])
    THEN CHOOSE i \in DOMAIN seq : P(seq[i]) /\ \A j \in 1..(i-1) : ~P(seq[j])
    ELSE 0

----------------------------------------------------------------------------
(* Cache lookups of the tool server *)

\* A lookup that tries the name before the id.
findSeverityId_NameFirst(nameOrId) ==
    LET byName == FindIndex(severities, LAMBDA s : toLowerCase(s.name) = toLowerCase(nameOrId))
        byId   == FindIndex(severities, LAMBDA s : s.id = nameOrId)
    IN  IF byName # 0 THEN severities[byName].id
        ELSE IF byId # 0 THEN severities[byId].id
        ELSE Undefined

\* A lookup that compares names as they are written.
findSeverityId_CaseSensitive(nameOrId) ==
    LET byId   == FindIndex(severities, LAMBDA s : s.id = nameOrId)
        byName == FindIndex(severities, LAMBDA s : s.name = nameOrId)
    IN  IF byId # 0 THEN severities[byId].id
        ELSE IF byName # 0 THEN severities[byName].id
        ELSE Undefined

findSeverityId(nameOrId) ==
    LET byId   == FindIndex(severities, LAMBDA s : s.id = nameOrId)
        byName == FindIndex(severities, LAMBDA s : toLowerCase(s.name) = toLowerCase(nameOrId))
    IN  IF byId # 0 THEN severities[byId].id
        ELSE IF byName # 0 THEN severities[byName].id
        ELSE Undefined

findIncidentTypeId(nameOrId) ==
    IF Falsy(nameOrId) THEN Undefined
    ELSE
    LET byId   == FindIndex(incidentTypes, LAMBDA t : t.id = nameOrId)
        byName == FindIndex(incidentTypes, LAMBDA t : toLowerCase(t.name) = toLowerCase(nameOrId))
    IN  IF byId # 0 THEN incidentTypes[byId].id
        ELSE IF byName # 0 THEN incidentTypes[byName].id
        ELSE Undefined

findStatusId(name) ==
    IF Falsy(name) THEN Undefined
    ELSE
    LET match == FindIndex(incidentStatuses, LAMBDA s : toLowerCase(s.name) = toLowerCase(name))
    IN  IF match # 0 THEN incidentStatuses[match].id ELSE Undefined

----------------------------------------------------------------------------
(* Reference data as upstream can return it *)

\* Longest reference table explored.
MaxCache == 2

Entries == [id : Strs, name : Strs]

Tables == UNION { [1..n -> Entries] : n \in 0..MaxCache }

----------------------------------------------------------------------------
(* Requests, upstream calls and results *)

NoReq == [op |-> "none"]
NoLoc == [none |-> TRUE]
NoResult == [kind |-> "none"]

\* No request has been received.
NoRequest ==
    /\ req = NoReq
    /\ pc = "idle"
    /\ loc = NoLoc
    /\ calls = <<>>
    /\ resps = <<>>
    /\ result = NoResult

----------------------------------------------------------------------------
(* Values exchanged with upstream *)

\* Array and object values carry a tag first, so that they stay comparable
\* with strings, undefined and null.
Arr(seq) == <<"#array">> \o seq
Obj(r) == <<"#object", r>>

\* The static bearer credential built from API_KEY.
BearerApiKey == <<"Bearer ", "API_KEY">>

\* An upstream call as axios sends it.  `body` is the JSON on the wire.
Call(api, method, path, query, body) ==
    [api |-> api, method |-> method, path |-> path, query |-> query,
     body |-> body, auth |-> BearerApiKey]

NoQuery == [none |-> TRUE]
NoBody == Undefined

\* JSON.stringify of an object: keys whose value is undefined are dropped.
Json(o) == [k \in {x \in DOMAIN o : o[x] # Undefined} |-> o[k]]

\* toText = JSON.stringify(obj, null, 2); of undefined it is undefined.
\* Objects are passed wrapped in Obj.
toText(obj) == IF obj = Undefined THEN Undefined ELSE <<"#json", obj>>

\* Property read `o.k` of a JavaScript object.
Get(o, k) == IF k \in DOMAIN o THEN o[k] ELSE Undefined

\* A fulfilled upstream call.
Ok(d) == [k |-> "ok", response |-> TRUE, status |-> 200, data |-> d, message |-> Undefined]

ErrPayload == <<"#upstream-error-payload">>
ErrMessage == <<"#error-message">>

\* A rejected upstream call: an error status with or without a body, or a
\* transport fault (no response at all).
ErrOutcomes ==
    { [k |-> "err", response |-> TRUE, status |-> s, data |-> d, message |-> ErrMessage] :
        s \in {400, 404, 500}, d \in {ErrPayload, EmptyStr} }
    \cup { [k |-> "err", response |-> FALSE, status |-> 0, data |-> Undefined, message |-> ErrMessage] }

\* err.response?.status
ErrStatus(err) == IF err.response THEN err.status ELSE 0

\* err.response?.data
ErrData(err) == IF err.response THEN err.data ELSE Undefined

----------------------------------------------------------------------------
(* Incidents as upstream returns them *)

Refs == { <<"INC-1">>, <<"INC-2">> }
IncidentIds == { <<"01A">>, <<"01B">> }

\* Upstream keys the translators copy into the always-present group.
BaseUpKeys ==
    { "id", "reference", "name", "incident_status", "severity", "created_at",
      "permalink", "visibility", "mode", "summary", "incident_type",
      "postmortem_document_url", "slack_channel_id", "slack_channel_name",
      "slack_team_id", "updated_at" }

\* Upstream keys the translators copy into the optional group.
OptUpKeys ==
    { "description", "incident_role_assignments", "labels", "custom_field_entries",
      "resolved_at", "started_at", "ended_at", "call_url", "call_url_expires_at",
      "call_url_created_at", "call_url_updated_at", "call_url_expires_in",
      "call_url_expires_in_seconds", "call_url_expires_in_minutes",
      "call_url_expires_in_hours", "call_url_expires_in_days",
      "call_url_expires_in_weeks", "call_url_expires_in_months",
      "call_url_expires_in_years", "external_issue_reference", "duration_metrics",
      "incident_timestamp_values" }

\* An upstream incident that defines every key.
FullIncident(ref, id) ==
    [k \in BaseUpKeys \cup OptUpKeys |->
        CASE k = "id"        -> id
          [] k = "reference" -> ref
          [] k \in {"incident_status", "severity"} -> Obj([name |-> <<"#name-of", k>>])
          [] OTHER           -> <<"#value-of", k>>]

\* The same incident with some keys left out and some carrying null.
Vary(inc, absent, nulls) ==
    [k \in (DOMAIN inc) \ absent |-> IF k \in nulls THEN Null ELSE inc[k]]

\* What a lookup of `ref` can return in the handler specification.
IncidentsFor(ref) ==
    { FullIncident(ref, id) : id \in IncidentIds }
    \cup { Vary(FullIncident(ref, <<"01A">>), {"description"}, {"resolved_at"}) }

\* Pages GET /incidents can return.
Pages ==
    { <<>>,
      << FullIncident(<<"INC-1">>, <<"01A">>) >>,
      << FullIncident(<<"INC-2">>, <<"01B">>),
         Vary(FullIncident(<<"INC-1">>, <<"01A">>),
              {"description", "postmortem_document_url"}, {"resolved_at"}) >>,
      << FullIncident(<<"INC-2">>, <<"01B">>), FullIncident(<<"INC-3">>, <<"01C">>) >> }

\* The pages that are full: as long as the page size upstream applies to a
\* GET /incidents that names none.
FullPages == { p \in Pages : \A q \in Pages : Len(q) <= Len(p) }

\* What upstream can hold beyond the first page `page`: nothing, or, when the
\* page is full, one more incident whose reference the page does not hold.
BeyondPage(page) ==
    { <<>> } \cup
    { << FullIncident(r, <<"01A">>) >> :
        r \in { x \in Refs : page \in FullPages /\ \A i \in DOMAIN page : page[i].reference # x } }

\* GET /incidents answered with the first page; `beyond` is what upstream
\* holds after it, which the response does not carry.
ListOk(page, rest) ==
    [k |-> "ok", response |-> TRUE, status |-> 200,
     data |-> [incidents |-> page, pagination_meta |-> <<"#meta">>],
     message |-> Undefined, beyond |-> rest]

----------------------------------------------------------------------------
(* SpecLookup: the three lookups applied to any cache content *)

NoProbe == [fn |-> "none", input |-> Undefined, out |-> Undefined]

\* The process got past its configuration check with the credential set.
Configured ==
    /\ apiKey = <<"API_KEY">>
    /\ proc = "up"

\* No refresh has run, or none is kept track of.
NoRefresh ==
    /\ refreshes = <<>>
    /\ origin = [severities |-> 0, incidentTypes |-> 0, incidentStatuses |-> 0]

\* What upstream holds is not followed: a refresh can be answered with any
\* table.
UpstreamAny == upstream = <<>>

\* Each lookup reads only its own table, so one table is drawn and held by
\* all three caches.
InitLookup ==
    /\ variant = "tool"
    /\ \E t \in Tables :
          /\ severities = t
          /\ incidentTypes = t
          /\ incidentStatuses = t
    /\ Configured
    /\ NoRefresh
    /\ UpstreamAny
    /\ probe = NoProbe
    /\ NoRequest

LookupSeverity(x) ==
    /\ probe' = [fn |-> "findSeverityId", input |-> x, out |-> findSeverityId(x)]
    /\ UNCHANGED <<variant, cacheVars, reqVars>>

LookupIncidentType(x) ==
    /\ probe' = [fn |-> "findIncidentTypeId", input |-> x, out |-> findIncidentTypeId(x)]
    /\ UNCHANGED <<variant, cacheVars, reqVars>>

LookupStatus(x) ==
    /\ probe' = [fn |-> "findStatusId", input |-> x, out |-> findStatusId(x)]
    /\ UNCHANGED <<variant, cacheVars, reqVars>>

NextLookup ==
    \/ \E x \in Strs \cup {EmptyStr} : LookupSeverity(x)
    \/ \E x \in Strs \cup {EmptyStr, Undefined} : LookupIncidentType(x)
    \/ \E x \in Strs \cup {EmptyStr, Undefined} : LookupStatus(x)

SpecLookup == InitLookup /\ [][NextLookup]_vars

----------------------------------------------------------------------------
(* C4 *)

\* The table a lookup reads.
TableOf(fn) ==
    CASE fn = "findSeverityId"     -> severities
      [] fn = "findIncidentTypeId" -> incidentTypes
      [] OTHER                     -> incidentStatuses

\* C4: a severity or incident-type lookup whose input equals the id of a
\* cached entry returns that id, whatever names the other entries carry.
C4_IdMatchWins ==
    (/\ probe.fn \in {"findSeverityId", "findIncidentTypeId"}
     /\ \E i \in DOMAIN TableOf(probe.fn) : TableOf(probe.fn)[i].id = probe.input)
    => probe.out = probe.input

\* The case C4 is about: the input is the id of the second entry while the
\* first entry, with another id, matches it by name ignoring case.
C4_Witness ==
    /\ probe.fn \in {"findSeverityId", "findIncidentTypeId"}
    /\ Len(TableOf(probe.fn)) = 2
    /\ TableOf(probe.fn)[2].id = probe.input
    /\ TableOf(probe.fn)[1].id # probe.input
    /\ toLowerCase(TableOf(probe.fn)[1].name) = toLowerCase(probe.input)
    /\ probe.out = probe.input

----------------------------------------------------------------------------
(* Handler steps *)

ToolOk(t) == [kind |-> "tool", isError |-> FALSE, text |-> t]
ToolErr(t) == [kind |-> "tool", isError |-> TRUE, text |-> t]

\* The handler let `err` escape to its caller.
Thrown(err) == [kind |-> "thrown", error |-> err]

\* A handler can start when none is in progress.
Ready == pc = "idle"

\* The handler starts and suspends on its first upstream call, holding the
\* locals `l`.
BeginWith(op, args, l, call) ==
    /\ Ready
    /\ req' = [op |-> op, args |-> args]
    /\ pc' = "await1"
    /\ loc' = l
    /\ calls' = <<call>>
    /\ resps' = <<>>
    /\ result' = NoResult

Begin(op, args, call) == BeginWith(op, args, NoLoc, call)

\* The handler starts and finishes without calling upstream.
Answer(op, args, res) ==
    /\ Ready
    /\ req' = [op |-> op, args |-> args]
    /\ pc' = "done"
    /\ loc' = NoLoc
    /\ calls' = <<>>
    /\ resps' = <<>>
    /\ result' = res

\* Outcome `o` arrives and the handler finishes with `res`.
Finish(o, res) ==
    /\ resps' = Append(resps, o)
    /\ pc' = "done"
    /\ result' = res
    /\ UNCHANGED <<req, loc, calls>>

\* Outcome `o` arrives and the handler suspends on a second call.
Continue(o, l, call) ==
    /\ resps' = Append(resps, o)
    /\ pc' = "await2"
    /\ loc' = l
    /\ calls' = Append(calls, call)
    /\ UNCHANGED <<req, result>>

\* The result has been delivered; the server waits for the next request.
NextRequest ==
    /\ pc = "done"
    /\ req' = NoReq
    /\ pc' = "idle"
    /\ loc' = NoLoc
    /\ calls' = <<>>
    /\ resps' = <<>>
    /\ result' = NoResult
    /\ UNCHANGED <<variant, cacheVars, probe>>

\* The handler of `op` is suspended at `at`.
At(v, op, at) == variant = v /\ req.op = op /\ pc = at

----------------------------------------------------------------------------
(* Tool server: error results *)

\* toText(err.response?.data ?? err.message)
ToolGeneric(err) ==
    ToolErr(toText(IF Nullish(ErrData(err)) THEN err.message ELSE ErrData(err)))

\* A catch block that does not tell 404 apart.
ToolNotFoundOr_Generic(err, what, id) == ToolGeneric(err)

\* The catch block that tells 404 apart: `<what> <id> not found`.
ToolNotFoundOr(err, what, id) ==
    IF ErrStatus(err) = 404
    THEN ToolErr(<<what, id, " not found">>)
    ELSE ToolGeneric(err)

----------------------------------------------------------------------------
(* Tool server: incidents *)

list_incidents_Start(a) ==
    /\ variant = "tool"
    /\ Begin("list_incidents", a,
             Call("v2", "GET", <<"incidents">>,
                  Json([page_size |-> IF a.page_size = Undefined THEN <<"25">> ELSE a.page_size,
                        after |-> IF Falsy(a.after) THEN Undefined ELSE a.after]),
                  NoBody))
    /\ UNCHANGED <<variant, cacheVars, probe>>

\* No try/catch surrounds the call: a rejection leaves the handler.
list_incidents_Resp ==
    /\ At("tool", "list_incidents", "await1")
    /\ \/ \E page \in Pages :
            LET o == Ok([incidents |-> page, pagination_meta |-> <<"#meta">>])
            IN  Finish(o, ToolOk(toText(Obj([incidents |-> o.data.incidents,
                                             pagination |-> o.data.pagination_meta]))))
       \/ \E e \in ErrOutcomes : Finish(e, Thrown(e))
    /\ UNCHANGED <<variant, cacheVars, probe>>

get_incident_Start(reference) ==
    /\ variant = "tool"
    /\ Begin("get_incident", [reference |-> reference],
             Call("v2", "GET", <<"incidents", reference>>, NoQuery, NoBody))
    /\ UNCHANGED <<variant, cacheVars, probe>>

get_incident_Resp ==
    /\ At("tool", "get_incident", "await1")
    /\ \/ \E inc \in IncidentsFor(req.args.reference) :
            Finish(Ok([incident |-> inc]), ToolOk(toText(Obj(inc))))
       \/ \E e \in ErrOutcomes :
            Finish(e, ToolNotFoundOr(e, "Incident ", req.args.reference))
    /\ UNCHANGED <<variant, cacheVars, probe>>

\* The lookup half shared by the tools that resolve a reference first:
\* GET /incidents/<reference> on the v2 client.
LookupCall(reference) == Call("v2", "GET", <<"incidents", reference>>, NoQuery, NoBody)

edit_incident_Start(a) ==
    /\ variant = "tool"
    /\ Begin("edit_incident", a, LookupCall(a.reference))
    /\ UNCHANGED <<variant, cacheVars, probe>>

\* payload: name and summary, each only when truthy.
EditPayload(a) ==
    Json([name |-> IF Falsy(a.name) THEN Undefined ELSE a.name,
          summary |-> IF Falsy(a.summary) THEN Undefined ELSE a.summary])

edit_incident_Lookup ==
    /\ At("tool", "edit_incident", "await1")
    /\ \/ \E inc \in IncidentsFor(req.args.reference) :
            LET o == Ok([incident |-> inc])
                incidentId == o.data.incident.id
                payload == EditPayload(req.args)
            IN  IF DOMAIN payload = {}
                THEN Finish(o, ToolErr(<<"Nothing to update">>))
                ELSE Continue(o, [incidentId |-> incidentId],
                              Call("v2", "POST", <<"incidents", incidentId>>, NoQuery, payload))
       \/ \E e \in ErrOutcomes :
            Finish(e, ToolNotFoundOr(e, "Incident ", req.args.reference))
    /\ UNCHANGED <<variant, cacheVars, probe>>

edit_incident_Resp ==
    /\ At("tool", "edit_incident", "await2")
    /\ \/ \E inc \in IncidentsFor(req.args.reference) :
            Finish(Ok([incident |-> inc]), ToolOk(toText(Obj(inc))))
       \/ \E e \in ErrOutcomes :
            Finish(e, ToolNotFoundOr(e, "Incident ", req.args.reference))
    /\ UNCHANGED <<variant, cacheVars, probe>>

list_incident_updates_Start(reference) ==
    /\ variant = "tool"
    /\ Begin("list_incident_updates", [reference |-> reference], LookupCall(reference))
    /\ UNCHANGED <<variant, cacheVars, probe>>

list_incident_updates_Lookup ==
    /\ At("tool", "list_incident_updates", "await1")
    /\ \/ \E inc \in IncidentsFor(req.args.reference) :
            LET o == Ok([incident |-> inc])
                incidentId == o.data.incident.id
            IN  Continue(o, [incidentId |-> incidentId],
                         Call("v2", "GET", <<"incidents", incidentId, "updates">>, NoQuery, NoBody))
       \/ \E e \in ErrOutcomes :
            Finish(e, ToolNotFoundOr(e, "Incident ", req.args.reference))
    /\ UNCHANGED <<variant, cacheVars, probe>>

list_incident_updates_Resp ==
    /\ At("tool", "list_incident_updates", "await2")
    /\ \/ LET o == Ok([incident_updates |-> Arr(<< <<"#update">> >>)])
          IN  Finish(o, ToolOk(toText(o.data.incident_updates)))
       \/ \E e \in ErrOutcomes :
            Finish(e, ToolNotFoundOr(e, "Incident ", req.args.reference))
    /\ UNCHANGED <<variant, cacheVars, probe>>

list_incident_timestamps_Start(reference) ==
    /\ variant = "tool"
    /\ Begin("list_incident_timestamps", [reference |-> reference], LookupCall(reference))
    /\ UNCHANGED <<variant, cacheVars, probe>>

list_incident_timestamps_Lookup ==
    /\ At("tool", "list_incident_timestamps", "await1")
    /\ \/ \E inc \in IncidentsFor(req.args.reference) :
            LET o == Ok([incident |-> inc])
                incidentId == o.data.incident.id
            IN  Continue(o, [incidentId |-> incidentId],
                         Call("v2", "GET", <<"incidents", incidentId, "timestamps">>, NoQuery, NoBody))
       \/ \E e \in ErrOutcomes :
            Finish(e, ToolNotFoundOr(e, "Incident ", req.args.reference))
    /\ UNCHANGED <<variant, cacheVars, probe>>

list_incident_timestamps_Resp ==
    /\ At("tool", "list_incident_timestamps", "await2")
    /\ \/ LET o == Ok([incident_timestamps |-> Arr(<< <<"#timestamp">> >>)])
          IN  Finish(o, ToolOk(toText(o.data.incident_timestamps)))
       \/ \E e \in ErrOutcomes :
            Finish(e, ToolNotFoundOr(e, "Incident ", req.args.reference))
    /\ UNCHANGED <<variant, cacheVars, probe>>

update_incident_status_Start(a) ==
    /\ variant = "tool"
    /\ LET statusId == findStatusId(a.status)
       IN  IF Falsy(statusId)
           THEN Answer("update_incident_status", a,
                       ToolErr(<<"Invalid status provided: ", a.status>>))
           ELSE BeginWith("update_incident_status", a, [statusId |-> statusId],
                          LookupCall(a.reference))
    /\ UNCHANGED <<variant, cacheVars, probe>>

update_incident_status_Lookup ==
    /\ At("tool", "update_incident_status", "await1")
    /\ \/ \E inc \in IncidentsFor(req.args.reference) :
            LET o == Ok([incident |-> inc])
                incidentId == o.data.incident.id
            IN  Continue(o, [statusId |-> loc.statusId, incidentId |-> incidentId],
                         Call("v2", "POST", <<"incidents", incidentId, "status">>, NoQuery,
                              [incident_status_id |-> loc.statusId]))
       \/ \E e \in ErrOutcomes :
            Finish(e, ToolNotFoundOr(e, "Incident ", req.args.reference))
    /\ UNCHANGED <<variant, cacheVars, probe>>

update_incident_status_Resp ==
    /\ At("tool", "update_incident_status", "await2")
    /\ \/ \E inc \in IncidentsFor(req.args.reference) :
            Finish(Ok([incident |-> inc]), ToolOk(toText(Obj(inc))))
       \/ \E e \in ErrOutcomes :
            Finish(e, ToolNotFoundOr(e, "Incident ", req.args.reference))
    /\ UNCHANGED <<variant, cacheVars, probe>>

\* A find that settles for the first incident of the page.
FindByReference_First(incidents, reference) == IF incidents = <<>> THEN 0 ELSE 1

\* data.incidents.find((i) => i.reference === reference), as an index.
FindByReference(incidents, reference) ==
    FindIndex(incidents, LAMBDA i : Get(i, "reference") = reference)

add_incident_timestamp_Start(a) ==
    /\ variant = "tool"
    /\ Begin("add_incident_timestamp", a,
             Call("v2", "GET", <<"incidents">>, NoQuery, NoBody))
    /\ UNCHANGED <<variant, cacheVars, probe>>

\* The listing is awaited outside the try block.
add_incident_timestamp_Lookup ==
    /\ At("tool", "add_incident_timestamp", "await1")
    /\ \/ \E page \in Pages : \E rest \in BeyondPage(page) :
            LET o == ListOk(page, rest)
                i == FindByReference(o.data.incidents, req.args.reference)
            IN  IF i = 0
                THEN Finish(o, ToolErr(<<"Incident ", req.args.reference, " not found">>))
                ELSE Continue(o, [incidentId |-> page[i].id],
                              Call("v2", "POST", <<"incidents", page[i].id, "timestamps">>, NoQuery,
                                   [timestamp_name |-> req.args.timestamp_name,
                                    value |-> req.args.value]))
       \/ \E e \in ErrOutcomes : Finish(e, Thrown(e))
    /\ UNCHANGED <<variant, cacheVars, probe>>

add_incident_timestamp_Resp ==
    /\ At("tool", "add_incident_timestamp", "await2")
    /\ \/ LET o == Ok([incident_timestamp |-> <<"#timestamp">>])
          IN  Finish(o, ToolOk(toText(Obj(o.data))))
       \/ \E e \in ErrOutcomes : Finish(e, ToolGeneric(e))
    /\ UNCHANGED <<variant, cacheVars, probe>>

\* One custom-field entry lifted from a convenience parameter.
\* A lifting that tests the parameter against undefined only.
ConvenienceEntry_Defined(field, v) ==
    IF v = Undefined THEN <<>>
    ELSE << [custom_field_id |-> <<field>>, values |-> Arr(<< [value_text |-> v] >>)] >>

ConvenienceEntry(field, v) ==
    IF Falsy(v) THEN <<>>
    ELSE << [custom_field_id |-> <<field>>, values |-> Arr(<< [value_text |-> v] >>)] >>

\* Elements of an optional array argument (`= []` when undefined).
Elems(arr) == IF arr = Undefined THEN <<>> ELSE Tail(arr)

\* The last idempotency key a create handler generated: Date.now() as read,
\* the Math.random() text as drawn (none on the tool server), the key.
KeyDrawn(now, rand, key) == [fn |-> "idempotency_key", input |-> now, rand |-> rand, out |-> key]

\* Math.random() does not return the value it returned last.
FreshRandom(rand) == probe.fn = "idempotency_key" => rand # probe.rand

\* The object create_incident posts, before serialisation.
ToolCreatePayload(a, now) ==
    [idempotency_key |-> IF Nullish(a.idempotency_key) THEN <<"mcp-", now>> ELSE a.idempotency_key,
     severity_id |-> IF Nullish(a.severity_id)
                     THEN findSeverityId(IF Nullish(a.severity) THEN EmptyStr ELSE a.severity)
                     ELSE a.severity_id,
     incident_status_id |-> findStatusId(a.status),
     visibility |-> IF Nullish(a.visibility) THEN <<"private">> ELSE a.visibility,
     mode |-> IF Nullish(a.mode) THEN <<"standard">> ELSE a.mode,
     incident_type_id |-> IF Nullish(a.incident_type_id)
                          THEN findIncidentTypeId(a.incident_type)
                          ELSE a.incident_type_id,
     name |-> a.name,
     summary |-> a.summary,
     created_at |-> a.created_at,
     custom_field_entries |->
         Arr(Elems(a.custom_field_entries)
             \o ConvenienceEntry("product", a.product)
             \o ConvenienceEntry("region", a.region)
             \o ConvenienceEntry("feature", a.feature)),
     description |-> a.summary,
     test_incident |-> a.test_incident,
     incident_role_assignments |-> Arr(Elems(a.incident_role_assignments)),
     incident_timestamp_values |-> Arr(Elems(a.incident_timestamp_values)),
     slack_channel_name_override |-> a.slack_channel_name_override,
     slack_team_id |-> a.slack_team_id]

create_incident_Start(a, now) ==
    /\ variant = "tool"
    /\ LET payload == ToolCreatePayload(a, now)
       IN  IF Falsy(payload.severity_id)
           THEN Answer("create_incident", a, ToolErr(<<"Invalid severity provided">>))
           ELSE Begin("create_incident", a,
                      Call("v2", "POST", <<"incidents">>, NoQuery, Json(payload)))
    /\ probe' = IF ~Falsy(ToolCreatePayload(a, now).severity_id) /\ Nullish(a.idempotency_key)
                THEN KeyDrawn(now, Undefined, ToolCreatePayload(a, now).idempotency_key)
                ELSE probe
    /\ UNCHANGED <<variant, cacheVars>>

create_incident_Resp ==
    /\ At("tool", "create_incident", "await1")
    /\ \/ \E inc \in IncidentsFor(<<"INC-1">>) :
            Finish(Ok([incident |-> inc]), ToolOk(toText(Obj(inc))))
       \/ \E e \in ErrOutcomes : Finish(e, ToolGeneric(e))
    /\ UNCHANGED <<variant, cacheVars, probe>>

----------------------------------------------------------------------------
(* Tool server: users and roles *)

list_users_Start(a) ==
    /\ variant = "tool"
    /\ Begin("list_users", a,
             Call("v2", "GET", <<"users">>,
                  Json([page_size |-> IF a.page_size = Undefined THEN <<"25">> ELSE a.page_size,
                        after |-> IF Falsy(a.after) THEN Undefined ELSE a.after]),
                  NoBody))
    /\ UNCHANGED <<variant, cacheVars, probe>>

list_users_Resp ==
    /\ At("tool", "list_users", "await1")
    /\ \/ LET o == Ok([users |-> Arr(<< <<"#user">> >>)])
          IN  Finish(o, ToolOk(toText(Obj(o.data))))
       \/ \E e \in ErrOutcomes : Finish(e, ToolGeneric(e))
    /\ UNCHANGED <<variant, cacheVars, probe>>

get_user_Start(id) ==
    /\ variant = "tool"
    /\ Begin("get_user", [id |-> id], Call("v2", "GET", <<"users", id>>, NoQuery, NoBody))
    /\ UNCHANGED <<variant, cacheVars, probe>>

get_user_Resp ==
    /\ At("tool", "get_user", "await1")
    /\ \/ LET o == Ok([user |-> <<"#user">>])
          IN  Finish(o, ToolOk(toText(o.data.user)))
       \/ \E e \in ErrOutcomes : Finish(e, ToolNotFoundOr(e, "User ", req.args.id))
    /\ UNCHANGED <<variant, cacheVars, probe>>

list_incident_roles_Start ==
    /\ variant = "tool"
    /\ Begin("list_incident_roles", [none |-> TRUE],
             Call("v2", "GET", <<"incident_roles">>, NoQuery, NoBody))
    /\ UNCHANGED <<variant, cacheVars, probe>>

\* No try/catch surrounds the call.
list_incident_roles_Resp ==
    /\ At("tool", "list_incident_roles", "await1")
    /\ \/ LET o == Ok([incident_roles |-> Arr(<< <<"#role">> >>)])
          IN  Finish(o, ToolOk(toText(o.data.incident_roles)))
       \/ \E e \in ErrOutcomes : Finish(e, Thrown(e))
    /\ UNCHANGED <<variant, cacheVars, probe>>

\* The membership payload of assign and revoke.
MembershipPayload(incidentId, a) ==
    [incident_id |-> incidentId,
     incident_role_id |-> a.incident_role_id,
     assignee |-> Obj(Json([id |-> IF Falsy(a.user_id) THEN Undefined ELSE a.user_id,
                            email |-> IF Falsy(a.email) THEN Undefined ELSE a.email]))]

assign_role_to_incident_Start(a) ==
    /\ variant = "tool"
    /\ IF Falsy(a.user_id) /\ Falsy(a.email)
       THEN Answer("assign_role_to_incident", a, ToolErr(<<"User ID or email is required.">>))
       ELSE Begin("assign_role_to_incident", a, LookupCall(a.reference))
    /\ UNCHANGED <<variant, cacheVars, probe>>

\* The catch block of assign does not tell 404 apart.
assign_role_to_incident_Lookup ==
    /\ At("tool", "assign_role_to_incident", "await1")
    /\ \/ \E inc \in IncidentsFor(req.args.reference) :
            LET o == Ok([incident |-> inc])
                incidentId == o.data.incident.id
            IN  Continue(o, [incidentId |-> incidentId],
                         Call("v1", "POST", <<"incident_memberships">>, NoQuery,
                              MembershipPayload(incidentId, req.args)))
       \/ \E e \in ErrOutcomes : Finish(e, ToolGeneric(e))
    /\ UNCHANGED <<variant, cacheVars, probe>>

assign_role_to_incident_Resp ==
    /\ At("tool", "assign_role_to_incident", "await2")
    /\ \/ LET o == Ok([incident_membership |-> <<"#membership">>])
          IN  Finish(o, ToolOk(toText(o.data.incident_membership)))
       \/ \E e \in ErrOutcomes : Finish(e, ToolGeneric(e))
    /\ UNCHANGED <<variant, cacheVars, probe>>

revoke_role_from_incident_Start(a) ==
    /\ variant = "tool"
    /\ IF Falsy(a.user_id) /\ Falsy(a.email)
       THEN Answer("revoke_role_from_incident", a, ToolErr(<<"User ID or email is required.">>))
       ELSE Begin("revoke_role_from_incident", a, LookupCall(a.reference))
    /\ UNCHANGED <<variant, cacheVars, probe>>

revoke_role_from_incident_Lookup ==
    /\ At("tool", "revoke_role_from_incident", "await1")
    /\ \/ \E inc \in IncidentsFor(req.args.reference) :
            LET o == Ok([incident |-> inc])
                incidentId == o.data.incident.id
            IN  Continue(o, [incidentId |-> incidentId],
                         Call("v1", "POST", <<"incident_memberships", "revoke">>, NoQuery,
                              MembershipPayload(incidentId, req.args)))
       \/ \E e \in ErrOutcomes : Finish(e, ToolGeneric(e))
    /\ UNCHANGED <<variant, cacheVars, probe>>

revoke_role_from_incident_Resp ==
    /\ At("tool", "revoke_role_from_incident", "await2")
    /\ \/ LET o == Ok([revoked |-> <<"#revoked">>])
          IN  Finish(o, ToolOk(toText(Obj(o.data))))
       \/ \E e \in ErrOutcomes : Finish(e, ToolGeneric(e))
    /\ UNCHANGED <<variant, cacheVars, probe>>

----------------------------------------------------------------------------
(* Tool server: metadata *)

\* A list_severities that reports an empty cache as an error.
list_severities_Call_Strict ==
    /\ variant = "tool"
    /\ Answer("list_severities", [none |-> TRUE],
              IF severities = <<>> THEN ToolErr(<<"No severities cached">>)
              ELSE ToolOk(toText(Arr(severities))))
    /\ UNCHANGED <<variant, cacheVars, probe>>

list_severities_Call ==
    /\ variant = "tool"
    /\ Answer("list_severities", [none |-> TRUE], ToolOk(toText(Arr(severities))))
    /\ UNCHANGED <<variant, cacheVars, probe>>

list_incident_types_Call ==
    /\ variant = "tool"
    /\ Answer("list_incident_types", [none |-> TRUE], ToolOk(toText(Arr(incidentTypes))))
    /\ UNCHANGED <<variant, cacheVars, probe>>

list_incident_statuses_Call ==
    /\ variant = "tool"
    /\ Answer("list_incident_statuses", [none |-> TRUE], ToolOk(toText(Arr(incidentStatuses))))
    /\ UNCHANGED <<variant, cacheVars, probe>>

get_incident_type_Start(id) ==
    /\ variant = "tool"
    /\ Begin("get_incident_type", [id |-> id],
             Call("v1", "GET", <<"incident_types", id>>, NoQuery, NoBody))
    /\ UNCHANGED <<variant, cacheVars, probe>>

get_incident_type_Resp ==
    /\ At("tool", "get_incident_type", "await1")
    /\ \/ LET o == Ok([incident_type |-> <<"#incident-type">>])
          IN  Finish(o, ToolOk(toText(o.data.incident_type)))
       \/ \E e \in ErrOutcomes : Finish(e, ToolNotFoundOr(e, "Incident type ", req.args.id))
    /\ UNCHANGED <<variant, cacheVars, probe>>

----------------------------------------------------------------------------
(* HTTP servers: responses and response translators *)

HttpRes(status, body) == [kind |-> "http", status |-> status, body |-> body]

\* A TypeError raised inside a handler (reading `.name` of undefined).
TypeErr == [k |-> "err", response |-> FALSE, status |-> 0, data |-> Undefined,
            message |-> <<"#TypeError">>]

\* A catch block that answers 500 whatever upstream answered.
HttpFail_Always500(label, err) ==
    HttpRes(500,
            [error |-> label,
             details |-> IF Falsy(ErrData(err))
                         THEN Obj([message |-> err.message])
                         ELSE ErrData(err)])

\* The catch block of every express handler:
\* res.status(error.response?.status || 500).json({error, details}).
HttpFail(label, err) ==
    HttpRes(IF ErrStatus(err) # 0 THEN ErrStatus(err) ELSE 500,
            [error |-> label,
             details |-> IF Falsy(ErrData(err))
                         THEN Obj([message |-> err.message])
                         ELSE ErrData(err)])

\* `x.name` of a nested object value.
NameOf(v) == Get(v[2], "name")

\* The translators read incident.incident_status.name and
\* incident.severity.name; either read throws on undefined or null.
CanTransform(inc) ==
    /\ ~Nullish(Get(inc, "incident_status"))
    /\ ~Nullish(Get(inc, "severity"))

\* baseIncident: the sixteen keys every translator always writes.
BaseIncident(inc) ==
    [id |-> Get(inc, "id"),
     reference |-> Get(inc, "reference"),
     name |-> Get(inc, "name"),
     status |-> NameOf(Get(inc, "incident_status")),
     severity |-> NameOf(Get(inc, "severity")),
     created_at |-> Get(inc, "created_at"),
     permalink |-> Get(inc, "permalink"),
     visibility |-> Get(inc, "visibility"),
     mode |-> Get(inc, "mode"),
     summary |-> Get(inc, "summary"),
     incident_type |-> Get(inc, "incident_type"),
     postmortem_document_url |-> Get(inc, "postmortem_document_url"),
     slack_channel_id |-> Get(inc, "slack_channel_id"),
     slack_channel_name |-> Get(inc, "slack_channel_name"),
     slack_team_id |-> Get(inc, "slack_team_id"),
     updated_at |-> Get(inc, "updated_at")]

\* The upstream key an outward optional key is read from; `cfKey` is the
\* outward name given to custom_field_entries.
OptSource(k, cfKey) == IF k = cfKey THEN "custom_field_entries" ELSE k

\* Outward optional keys of a translator.
OptOutKeys(cfKey) == (OptUpKeys \ {"custom_field_entries"}) \cup {cfKey}

\* optionalFields filtered by `value !== undefined`.
FilteredOptionalFields(inc, cfKey) ==
    [k \in {x \in OptOutKeys(cfKey) : Get(inc, OptSource(x, cfKey)) # Undefined} |->
        Get(inc, OptSource(k, cfKey))]

\* { ...baseIncident, ...filteredOptionalFields }
Spread(a, b) ==
    [k \in DOMAIN a \cup DOMAIN b |-> IF k \in DOMAIN b THEN b[k] ELSE a[k]]

\* The three translators of index.ts; res.json serialises the object.
TransformListed(inc) == Spread(BaseIncident(inc), FilteredOptionalFields(inc, "custom_fields"))
TransformFetched(inc) == Spread(BaseIncident(inc), FilteredOptionalFields(inc, "custom_fields"))
TransformCreated(inc) == Spread(BaseIncident(inc), FilteredOptionalFields(inc, "custom_field_entries"))

----------------------------------------------------------------------------
(* HTTP server of index.ts *)

health_Call ==
    /\ variant \in {"http", "legacy"}
    /\ Answer("GET /health", [none |-> TRUE], HttpRes(200, [status |-> <<"healthy">>]))
    /\ UNCHANGED <<variant, cacheVars, probe>>

\* parseInt(req.query.page_size) || 25 over the page sizes explored.
PageSizeOf(q) == IF Falsy(q) \/ q = <<"0">> \/ q = <<"x">> THEN <<"25">> ELSE q

http_list_Start(a) ==
    /\ variant = "http"
    /\ Begin("GET /mcp/incidents", a,
             Call("v2", "GET", <<"incidents">>,
                  Json([page_size |-> PageSizeOf(a.page_size),
                        after |-> IF Falsy(a.after) THEN Undefined ELSE a.after]),
                  NoBody))
    /\ UNCHANGED <<variant, cacheVars, probe>>

http_list_Resp ==
    /\ At("http", "GET /mcp/incidents", "await1")
    /\ \/ \E page \in Pages :
            LET o == Ok([incidents |-> page, pagination_meta |-> <<"#meta">>])
            IN  IF \A i \in DOMAIN page : CanTransform(page[i])
                THEN Finish(o, HttpRes(200,
                        [incidents |-> [i \in DOMAIN page |-> Json(TransformListed(page[i]))],
                         pagination |-> o.data.pagination_meta]))
                ELSE Finish(o, HttpFail("Failed to fetch incidents", TypeErr))
       \/ \E e \in ErrOutcomes : Finish(e, HttpFail("Failed to fetch incidents", e))
    /\ UNCHANGED <<variant, cacheVars, probe>>

\* 'Authorization': req.headers.authorization || `Bearer ${apiKey}`
ForwardedAuth(header) == IF Falsy(header) THEN BearerApiKey ELSE header

http_severities_Start(a) ==
    /\ variant = "http"
    /\ Begin("GET /mcp/severities", a,
             [Call("v1", "GET", <<"severities">>, NoQuery, NoBody)
                 EXCEPT !.auth = ForwardedAuth(a.authorization)])
    /\ UNCHANGED <<variant, cacheVars, probe>>

http_severities_Resp ==
    /\ At("http", "GET /mcp/severities", "await1")
    /\ \/ LET o == Ok([severities |-> Arr(<< <<"#severity">> >>)])
          IN  Finish(o, HttpRes(200, o.data))
       \/ \E e \in ErrOutcomes : Finish(e, HttpFail("Failed to fetch severities", e))
    /\ UNCHANGED <<variant, cacheVars, probe>>

http_incident_types_Start(a) ==
    /\ variant = "http"
    /\ Begin("GET /mcp/incident_types", a,
             [Call("v1", "GET", <<"incident_types">>, NoQuery, NoBody)
                 EXCEPT !.auth = ForwardedAuth(a.authorization)])
    /\ UNCHANGED <<variant, cacheVars, probe>>

http_incident_types_Resp ==
    /\ At("http", "GET /mcp/incident_types", "await1")
    /\ \/ LET o == Ok([incident_types |-> Arr(<< <<"#incident-type">> >>)])
          IN  Finish(o, HttpRes(200, o.data))
       \/ \E e \in ErrOutcomes : Finish(e, HttpFail("Failed to fetch incident types", e))
    /\ UNCHANGED <<variant, cacheVars, probe>>

\* Object.keys(req.body)
Received(a) == DOMAIN Json(a)

\* severitiesCache.find((s) => s.name.toLowerCase() === severity.toLowerCase())
HttpSeverityIndex(severity) ==
    FindIndex(severities, LAMBDA s : toLowerCase(s.name) = toLowerCase(severity))

\* finalSeverityId, when the lookup (if any) succeeds.
HttpFinalSeverityId(a) ==
    IF Falsy(a.severity_id) /\ ~Falsy(a.severity)
    THEN severities[HttpSeverityIndex(a.severity)].id
    ELSE a.severity_id

\* An object value: typeof v === 'object' (null apart).
IsObject(v) == Len(v) = 2 /\ v[1] = "#object"

\* finalIncidentTypeId
HttpFinalIncidentTypeId(a) ==
    IF Falsy(a.incident_type_id) /\ ~Falsy(a.incident_type)
    THEN IF IsObject(a.incident_type)
         THEN IF ~Falsy(Get(a.incident_type[2], "id"))
              THEN Get(a.incident_type[2], "id")
              ELSE a.incident_type_id
         ELSE LET t == FindIndex(incidentTypes,
                           LAMBDA x : toLowerCase(x.name) = toLowerCase(a.incident_type))
              IN  IF t # 0 THEN incidentTypes[t].id ELSE a.incident_type_id
    ELSE a.incident_type_id

\* requestPayload of POST /mcp/incidents, before serialisation.
HttpCreatePayload(a, now, rand) ==
    [idempotency_key |-> IF Falsy(a.idempotency_key) THEN <<"mcp-", now, "-", rand>>
                         ELSE a.idempotency_key,
     visibility |-> a.visibility,
     incident |-> Obj(Json(
        [name |-> a.name,
         summary |-> a.summary,
         severity_id |-> HttpFinalSeverityId(a),
         incident_status_id |-> a.status,
         created_at |-> a.created_at,
         custom_field_entries |-> Arr(Elems(a.custom_field_entries)),
         description |-> a.description,
         incident_type_id |-> HttpFinalIncidentTypeId(a),
         incident_role_assignments |-> Arr(Elems(a.incident_role_assignments)),
         labels |-> Arr(Elems(a.labels)),
         postmortem_document_url |-> a.postmortem_document_url,
         slack_channel_id |-> a.slack_channel_id,
         slack_channel_name |-> a.slack_channel_name,
         slack_team_id |-> a.slack_team_id,
         slack_team_name |-> a.slack_team_name,
         mode |-> a.mode,
         external_issue_reference |-> a.external_issue_reference,
         incident_timestamp_values |-> Arr(Elems(a.incident_timestamp_values)),
         duration_metrics |-> a.duration_metrics,
         preserve_name |-> <<"true">>]))]

http_create_Start(a, now, rand) ==
    /\ variant = "http"
    /\ IF Falsy(a.name) \/ Falsy(a.summary) \/ (Falsy(a.severity) /\ Falsy(a.severity_id))
       THEN Answer("POST /mcp/incidents", a,
                HttpRes(400, [error |-> "Missing required fields",
                              details |-> Obj([required |-> <<"name", "summary", "severity or severity_id">>,
                                               received |-> Received(a)])]))
       ELSE IF Falsy(a.severity_id) /\ HttpSeverityIndex(a.severity) = 0
       THEN Answer("POST /mcp/incidents", a,
                HttpRes(400, [error |-> "Invalid severity",
                              details |-> Obj([message |-> <<"Severity not found", a.severity,
                                    [i \in DOMAIN severities |-> severities[i].name]>>])]))
       ELSE Begin("POST /mcp/incidents", a,
                  Call("v2", "POST", <<"incidents">>, NoQuery,
                       Json(HttpCreatePayload(a, now, rand))))
    /\ FreshRandom(rand)
    /\ probe' = IF /\ ~(Falsy(a.name) \/ Falsy(a.summary) \/ (Falsy(a.severity) /\ Falsy(a.severity_id)))
                   /\ ~(Falsy(a.severity_id) /\ HttpSeverityIndex(a.severity) = 0)
                   /\ Falsy(a.idempotency_key)
                THEN KeyDrawn(now, rand, HttpCreatePayload(a, now, rand).idempotency_key)
                ELSE probe
    /\ UNCHANGED <<variant, cacheVars>>

http_create_Resp ==
    /\ At("http", "POST /mcp/incidents", "await1")
    /\ \/ \E inc \in IncidentsFor(<<"INC-1">>) \cup {Vary(FullIncident(<<"INC-1">>, <<"01A">>), {"severity"}, {})} :
            LET o == Ok([incident |-> inc])
            IN  IF CanTransform(inc)
                THEN Finish(o, HttpRes(201, Json(TransformCreated(inc))))
                ELSE Finish(o, HttpFail("Failed to create incident", TypeErr))
       \/ \E e \in ErrOutcomes : Finish(e, HttpFail("Failed to create incident", e))
    /\ UNCHANGED <<variant, cacheVars, probe>>

\* const validStatuses: declared beside the caches, read by no handler.
validStatuses ==
    { <<"investigating">>, <<"identified">>, <<"monitoring">>, <<"resolved">>, <<"postmortem">> }

\* The reference lookup of the express handlers: the first page of
\* GET /incidents.
HttpLookupCall == Call("v2", "GET", <<"incidents">>, NoQuery, NoBody)

HttpNotFound(reference) ==
    HttpRes(404, [error |-> "Incident not found",
                  details |-> <<"No incident found with reference ", reference>>])

http_get_Start(reference) ==
    /\ variant = "http"
    /\ Begin("GET /mcp/incidents/:reference", [reference |-> reference], HttpLookupCall)
    /\ UNCHANGED <<variant, cacheVars, probe>>

http_get_Resp ==
    /\ At("http", "GET /mcp/incidents/:reference", "await1")
    /\ \/ \E page \in Pages : \E rest \in BeyondPage(page) :
            LET o == ListOk(page, rest)
                i == FindByReference(o.data.incidents, req.args.reference)
            IN  IF i = 0 THEN Finish(o, HttpNotFound(req.args.reference))
                ELSE IF CanTransform(page[i])
                THEN Finish(o, HttpRes(200, Json(TransformFetched(page[i]))))
                ELSE Finish(o, HttpFail("Failed to fetch incident", TypeErr))
       \/ \E e \in ErrOutcomes : Finish(e, HttpFail("Failed to fetch incident", e))
    /\ UNCHANGED <<variant, cacheVars, probe>>

http_status_Start(a) ==
    /\ variant = "http"
    /\ IF Falsy(a.status)
       THEN Answer("POST /mcp/incidents/:reference/status", a,
                HttpRes(400, [error |-> "Missing required field",
                              details |-> Obj([required |-> <<"status">>,
                                               received |-> Received([status |-> a.status])])]))
       ELSE Begin("POST /mcp/incidents/:reference/status", a, HttpLookupCall)
    /\ UNCHANGED <<variant, cacheVars, probe>>

http_status_Lookup ==
    /\ At("http", "POST /mcp/incidents/:reference/status", "await1")
    /\ \/ \E page \in Pages : \E rest \in BeyondPage(page) :
            LET o == ListOk(page, rest)
                i == FindByReference(o.data.incidents, req.args.reference)
            IN  IF i = 0 THEN Finish(o, HttpNotFound(req.args.reference))
                ELSE Continue(o, [incidentId |-> Get(page[i], "id")],
                         Call("v2", "POST", <<"incidents", Get(page[i], "id"), "status">>, NoQuery,
                              [status |-> req.args.status]))
       \/ \E e \in ErrOutcomes : Finish(e, HttpFail("Failed to update incident status", e))
    /\ UNCHANGED <<variant, cacheVars, probe>>

http_status_Resp ==
    /\ At("http", "POST /mcp/incidents/:reference/status", "await2")
    /\ \/ \E inc \in IncidentsFor(req.args.reference) :
            LET o == Ok([incident |-> inc])
            IN  IF ~Nullish(Get(inc, "incident_status"))
                THEN Finish(o, HttpRes(200, Json(
                        [id |-> Get(inc, "id"),
                         reference |-> Get(inc, "reference"),
                         status |-> NameOf(Get(inc, "incident_status")),
                         updated_at |-> Get(inc, "updated_at")])))
                ELSE Finish(o, HttpFail("Failed to update incident status", TypeErr))
       \/ \E e \in ErrOutcomes : Finish(e, HttpFail("Failed to update incident status", e))
    /\ UNCHANGED <<variant, cacheVars, probe>>

http_timestamps_Start(a) ==
    /\ variant = "http"
    /\ IF Falsy(a.timestamp_name) \/ Falsy(a.value)
       THEN Answer("POST /mcp/incidents/:reference/timestamps", a,
                HttpRes(400, [error |-> "Missing required fields",
                              details |-> Obj([required |-> <<"timestamp_name", "value">>,
                                               received |-> Received([timestamp_name |-> a.timestamp_name,
                                                         value |-> a.value])])]))
       ELSE Begin("POST /mcp/incidents/:reference/timestamps", a, HttpLookupCall)
    /\ UNCHANGED <<variant, cacheVars, probe>>

http_timestamps_Lookup ==
    /\ At("http", "POST /mcp/incidents/:reference/timestamps", "await1")
    /\ \/ \E page \in Pages : \E rest \in BeyondPage(page) :
            LET o == ListOk(page, rest)
                i == FindByReference(o.data.incidents, req.args.reference)
            IN  IF i = 0 THEN Finish(o, HttpNotFound(req.args.reference))
                ELSE Continue(o, [incidentId |-> Get(page[i], "id")],
                         Call("v2", "POST", <<"incidents", Get(page[i], "id"), "timestamps">>, NoQuery,
                              [timestamp_name |-> req.args.timestamp_name,
                               value |-> req.args.value]))
       \/ \E e \in ErrOutcomes : Finish(e, HttpFail("Failed to add incident timestamp", e))
    /\ UNCHANGED <<variant, cacheVars, probe>>

http_timestamps_Resp ==
    /\ At("http", "POST /mcp/incidents/:reference/timestamps", "await2")
    /\ \/ LET o == Ok([incident_timestamp |-> <<"#timestamp">>])
          IN  Finish(o, HttpRes(200, o.data))
       \/ \E e \in ErrOutcomes : Finish(e, HttpFail("Failed to add incident timestamp", e))
    /\ UNCHANGED <<variant, cacheVars, probe>>

----------------------------------------------------------------------------
(* First express server (part_000): no cache, one client on the API root *)

\* Destructuring default: `x = d` applies when x is undefined.
Default(x, d) == IF x = Undefined THEN d ELSE x

LegacyTransform(inc) ==
    [id |-> Get(inc, "id"),
     reference |-> Get(inc, "reference"),
     name |-> Get(inc, "name"),
     status |-> Get(inc, "status"),
     severity |-> NameOf(Get(inc, "severity")),
     created_at |-> Get(inc, "created_at"),
     summary |-> Get(inc, "summary"),
     permalink |-> Get(inc, "permalink")]

legacy_list_Start ==
    /\ variant = "legacy"
    /\ Begin("GET /mcp/incidents", [none |-> TRUE],
             Call("root", "GET", <<"v1", "incidents">>, NoQuery, NoBody))
    /\ UNCHANGED <<variant, cacheVars, probe>>

legacy_list_Resp ==
    /\ At("legacy", "GET /mcp/incidents", "await1")
    /\ \/ \E page \in Pages :
            LET o == Ok([incidents |-> page,
                         pagination_meta |-> Obj([total_record_count |-> <<"#count">>])])
            IN  IF \A i \in DOMAIN page : ~Nullish(Get(page[i], "severity"))
                THEN Finish(o, HttpRes(200,
                        [incidents |-> [i \in DOMAIN page |-> Json(LegacyTransform(page[i]))],
                         total_count |-> Get(o.data.pagination_meta[2], "total_record_count")]))
                ELSE Finish(o, HttpFail("Failed to fetch incidents", TypeErr))
       \/ \E e \in ErrOutcomes : Finish(e, HttpFail("Failed to fetch incidents", e))
    /\ UNCHANGED <<variant, cacheVars, probe>>

legacy_severities_Start ==
    /\ variant = "legacy"
    /\ Begin("GET /mcp/severities", [none |-> TRUE],
             Call("root", "GET", <<"v1", "severities">>, NoQuery, NoBody))
    /\ UNCHANGED <<variant, cacheVars, probe>>

legacy_severities_Resp ==
    /\ At("legacy", "GET /mcp/severities", "await1")
    /\ \/ LET o == Ok([severities |-> Arr(<< <<"#severity">> >>)])
          IN  Finish(o, HttpRes(200, o.data))
       \/ \E e \in ErrOutcomes : Finish(e, HttpFail("Failed to fetch severities", e))
    /\ UNCHANGED <<variant, cacheVars, probe>>

\* The severity list is fetched from upstream once the required fields are
\* present.
legacy_create_Start(a) ==
    /\ variant = "legacy"
    /\ IF Falsy(a.name) \/ Falsy(a.summary) \/ Falsy(a.severity)
       THEN Answer("POST /mcp/incidents", a,
                HttpRes(400, [error |-> "Missing required fields",
                              details |-> Obj([required |-> <<"name", "summary", "severity">>,
                                               received |-> Received(a)])]))
       ELSE Begin("POST /mcp/incidents", a,
                  Call("root", "GET", <<"v1", "severities">>, NoQuery, NoBody))
    /\ UNCHANGED <<variant, cacheVars, probe>>

LegacyCreatePayload(a, severityId, now, rand) ==
    [idempotency_key |-> <<"mcp-", now, "-", rand>>,
     visibility |-> Default(a.visibility, <<"private">>),
     severity_id |-> severityId,
     incident |-> Obj(Json(
        [name |-> a.name,
         summary |-> a.summary,
         status |-> Default(a.status, <<"investigating">>),
         created_at |-> a.created_at,
         custom_fields |-> Default(a.custom_fields, Obj([none |-> TRUE])),
         test_incident |-> Default(a.test_incident, <<"false">>)]))]

legacy_create_Severities(table, now, rand) ==
    /\ At("legacy", "POST /mcp/incidents", "await1")
    /\ LET o == Ok([severities |-> table])
           i == FindIndex(table, LAMBDA x : toLowerCase(x.name) = toLowerCase(req.args.severity))
           severityId == IF i = 0 THEN Undefined ELSE table[i].id
       IN  IF Falsy(severityId)
           THEN Finish(o, HttpRes(400, [error |-> "Invalid severity",
                    details |-> Obj([message |-> <<"Severity not found", req.args.severity,
                                       [j \in DOMAIN table |-> table[j].name]>>])]))
           ELSE Continue(o, [severityId |-> severityId],
                    Call("root", "POST", <<"v1", "incidents">>, NoQuery,
                         Json(LegacyCreatePayload(req.args, severityId, now, rand))))
    /\ FreshRandom(rand)
    /\ probe' = IF FindIndex(table, LAMBDA x : toLowerCase(x.name) = toLowerCase(req.args.severity)) # 0
                THEN KeyDrawn(now, rand, <<"mcp-", now, "-", rand>>)
                ELSE probe
    /\ UNCHANGED <<variant, cacheVars>>

legacy_create_SeveritiesFail ==
    /\ At("legacy", "POST /mcp/incidents", "await1")
    /\ \E e \in ErrOutcomes : Finish(e, HttpFail("Failed to create incident", e))
    /\ UNCHANGED <<variant, cacheVars, probe>>

legacy_create_Resp ==
    /\ At("legacy", "POST /mcp/incidents", "await2")
    /\ \/ \E inc \in IncidentsFor(<<"INC-1">>) :
            LET o == Ok([incident |-> inc])
            IN  IF ~Nullish(Get(inc, "severity"))
                THEN Finish(o, HttpRes(201, Json(
                        [id |-> Get(inc, "id"),
                         reference |-> Get(inc, "reference"),
                         name |-> Get(inc, "name"),
                         status |-> Get(inc, "status"),
                         severity |-> NameOf(Get(inc, "severity")),
                         created_at |-> Get(inc, "created_at"),
                         summary |-> Get(inc, "summary"),
                         permalink |-> Get(inc, "permalink"),
                         test_incident |-> Get(inc, "test_incident"),
                         visibility |-> Get(inc, "visibility")])))
                ELSE Finish(o, HttpFail("Failed to create incident", TypeErr))
       \/ \E e \in ErrOutcomes : Finish(e, HttpFail("Failed to create incident", e))
    /\ UNCHANGED <<variant, cacheVars, probe>>

----------------------------------------------------------------------------
(* Spec: one request at a time against each server, cache held fixed *)

\* Cache contents the handlers run against: empty, one entry, and two
\* entries where the first one's name equals the second one's id up to case.
HandlerTables ==
    { <<>>,
      << [id |-> <<"b">>, name |-> <<"a","B">>] >>,
      << [id |-> <<"b">>, name |-> <<"A">>], [id |-> <<"a">>, name |-> <<"a","B">>] >> }

\* Values of Date.now() and of the random suffix.
Times == { <<"t1">>, <<"t2">> }
Rands == { <<"r1">>, <<"r2">> }

PagingArgs == [page_size : {Undefined, <<"50">>}, after : {Undefined, <<"cursor">>}]

\* A custom field entry as a caller supplies it.
SuppliedEntry(field) ==
    [custom_field_id |-> <<field>>, values |-> Arr(<< [value_text |-> <<"given">>] >>)]

ToolCreateBase ==
    [name |-> <<"n">>, summary |-> <<"s">>, severity |-> Undefined, severity_id |-> Undefined,
     status |-> Undefined, created_at |-> Undefined, visibility |-> Undefined,
     incident_type |-> Undefined, incident_type_id |-> Undefined, mode |-> Undefined,
     idempotency_key |-> Undefined, custom_field_entries |-> Undefined,
     incident_role_assignments |-> Undefined, incident_timestamp_values |-> Undefined,
     slack_channel_name_override |-> Undefined, slack_team_id |-> Undefined,
     product |-> Undefined, region |-> Undefined, feature |-> Undefined,
     test_incident |-> Undefined]

ToolCreateArgs ==
    { [ToolCreateBase EXCEPT !.severity = sv, !.severity_id = sid, !.incident_type = it,
                             !.status = st, !.idempotency_key = ik, !.product = pr] :
        sv \in Strs \cup {Undefined, EmptyStr},
        sid \in {Undefined, EmptyStr, <<"b">>, <<"z">>},
        it \in {Undefined, <<"A">>, <<"a">>},
        st \in {Undefined, <<"A","b">>, <<"a","B">>},
        ik \in {Undefined, <<"k">>},
        pr \in {Undefined, <<"p">>} }
    \cup
    { [ToolCreateBase EXCEPT !.severity_id = <<"b">>, !.custom_field_entries = cfe,
                             !.product = pr, !.region = rg, !.feature = ft] :
        cfe \in {Undefined, Arr(<<SuppliedEntry("team"), SuppliedEntry("product")>>),
                 Arr(<<SuppliedEntry("product"), SuppliedEntry("team")>>)},
        pr \in {Undefined, EmptyStr, <<"p">>},
        rg \in {Undefined, <<"r">>},
        ft \in {Undefined, <<"f">>} }

HttpCreateBase ==
    [name |-> <<"n">>, summary |-> <<"s">>, severity |-> Undefined, severity_id |-> Undefined,
     status |-> Undefined, created_at |-> Undefined, custom_field_entries |-> Undefined,
     visibility |-> Undefined, description |-> Undefined, incident_type |-> Undefined,
     incident_type_id |-> Undefined, incident_role_assignments |-> Undefined,
     labels |-> Undefined, postmortem_document_url |-> Undefined,
     slack_channel_id |-> Undefined, slack_channel_name |-> Undefined,
     slack_team_id |-> Undefined, slack_team_name |-> Undefined,
     idempotency_key |-> Undefined, mode |-> Undefined,
     external_issue_reference |-> Undefined, incident_timestamp_values |-> Undefined,
     duration_metrics |-> Undefined]

HttpCreateArgs ==
    { [HttpCreateBase EXCEPT !.name = n, !.summary = su, !.severity = sv, !.severity_id = sid,
                             !.incident_type = it, !.status = st] :
        n \in {Undefined, <<"n">>},
        su \in {Undefined, <<"s">>},
        sv \in Strs \cup {Undefined, EmptyStr},
        sid \in {Undefined, EmptyStr, <<"b">>, <<"z">>},
        it \in {Undefined, <<"A">>, Obj([id |-> <<"b">>])},
        st \in {Undefined, <<"A","b">>} }

LegacyCreateArgs ==
    [name : {Undefined, <<"n">>}, summary : {Undefined, <<"s">>},
     severity : {Undefined, <<"a">>, <<"A">>, <<"A","b">>},
     status : {Undefined, <<"resolved">>}, created_at : {Undefined},
     custom_fields : {Undefined}, test_incident : {Undefined},
     visibility : {Undefined, <<"public">>}]

EditArgs == [reference : Refs, name : {Undefined, EmptyStr, <<"n">>}, summary : {Undefined, <<"s">>}]
StatusArgs == [reference : Refs, status : {EmptyStr, <<"A">>, <<"a","B">>, <<"A","b">>}]
TimestampArgs == [reference : Refs, timestamp_name : {<<"detected">>}, value : {<<"2025-04-09">>}]
RoleArgs == [reference : Refs, incident_role_id : {<<"role1">>},
             user_id : {Undefined, EmptyStr, <<"u1">>}, email : {Undefined, <<"u@x">>}]
HttpStatusArgs == [reference : Refs, status : {Undefined, EmptyStr, <<"resolved">>, <<"bogus">>}]
HttpTimestampArgs == [reference : Refs, timestamp_name : {Undefined, <<"detected">>},
                      value : {Undefined, <<"2025-04-09">>}]
AuthArgs == [authorization : {Undefined, <<"Bearer ", "caller-token">>}]

Init ==
    /\ variant \in {"tool", "http", "legacy"}
    /\ \E t \in HandlerTables :
          /\ variant = "legacy" => t = <<>>
          /\ severities = t
          /\ incidentTypes = t
          /\ incidentStatuses = IF variant = "tool" THEN t ELSE <<>>
    /\ Configured
    /\ NoRefresh
    /\ UpstreamAny
    /\ probe = NoProbe
    /\ NoRequest

\* The server `v` is ready for a request.  Stated ahead of the argument
\* choice in Next, it repeats the first conjuncts of every start action.
ReadyFor(v) == Ready /\ variant = v

Next ==
    \/ ReadyFor("tool") /\ \E a \in PagingArgs : list_incidents_Start(a)
    \/ list_incidents_Resp
    \/ ReadyFor("tool") /\ \E r \in Refs : get_incident_Start(r)
    \/ get_incident_Resp
    \/ ReadyFor("tool") /\ \E a \in EditArgs : edit_incident_Start(a)
    \/ edit_incident_Lookup
    \/ edit_incident_Resp
    \/ ReadyFor("tool") /\ \E r \in Refs : list_incident_updates_Start(r)
    \/ list_incident_updates_Lookup
    \/ list_incident_updates_Resp
    \/ ReadyFor("tool") /\ \E r \in Refs : list_incident_timestamps_Start(r)
    \/ list_incident_timestamps_Lookup
    \/ list_incident_timestamps_Resp
    \/ ReadyFor("tool") /\ \E a \in StatusArgs : update_incident_status_Start(a)
    \/ update_incident_status_Lookup
    \/ update_incident_status_Resp
    \/ ReadyFor("tool") /\ \E a \in TimestampArgs : add_incident_timestamp_Start(a)
    \/ add_incident_timestamp_Lookup
    \/ add_incident_timestamp_Resp
    \/ ReadyFor("tool") /\ \E a \in ToolCreateArgs, now \in Times : create_incident_Start(a, now)
    \/ create_incident_Resp
    \/ ReadyFor("tool") /\ \E a \in PagingArgs : list_users_Start(a)
    \/ list_users_Resp
    \/ ReadyFor("tool") /\ \E id \in {<<"u1">>} : get_user_Start(id)
    \/ get_user_Resp
    \/ list_incident_roles_Start
    \/ list_incident_roles_Resp
    \/ ReadyFor("tool") /\ \E a \in RoleArgs : assign_role_to_incident_Start(a)
    \/ assign_role_to_incident_Lookup
    \/ assign_role_to_incident_Resp
    \/ ReadyFor("tool") /\ \E a \in RoleArgs : revoke_role_from_incident_Start(a)
    \/ revoke_role_from_incident_Lookup
    \/ revoke_role_from_incident_Resp
    \/ list_severities_Call
    \/ list_incident_types_Call
    \/ list_incident_statuses_Call
    \/ ReadyFor("tool") /\ \E id \in {<<"type1">>} : get_incident_type_Start(id)
    \/ get_incident_type_Resp
    \/ health_Call
    \/ ReadyFor("http") /\ \E a \in PagingArgs : http_list_Start(a)
    \/ http_list_Resp
    \/ ReadyFor("http") /\ \E a \in AuthArgs : http_severities_Start(a)
    \/ http_severities_Resp
    \/ ReadyFor("http") /\ \E a \in AuthArgs : http_incident_types_Start(a)
    \/ http_incident_types_Resp
    \/ ReadyFor("http") /\ \E a \in HttpCreateArgs, now \in Times, rand \in Rands :
            http_create_Start(a, now, rand)
    \/ http_create_Resp
    \/ ReadyFor("http") /\ \E r \in Refs : http_get_Start(r)
    \/ http_get_Resp
    \/ ReadyFor("http") /\ \E a \in HttpStatusArgs : http_status_Start(a)
    \/ http_status_Lookup
    \/ http_status_Resp
    \/ ReadyFor("http") /\ \E a \in HttpTimestampArgs : http_timestamps_Start(a)
    \/ http_timestamps_Lookup
    \/ http_timestamps_Resp
    \/ legacy_list_Start
    \/ legacy_list_Resp
    \/ legacy_severities_Start
    \/ legacy_severities_Resp
    \/ ReadyFor("legacy") /\ \E a \in LegacyCreateArgs : legacy_create_Start(a)
    \/ At("legacy", "POST /mcp/incidents", "await1")
         /\ \E t \in HandlerTables, now \in Times, rand \in Rands :
                legacy_create_Severities(t, now, rand)
    \/ legacy_create_SeveritiesFail
    \/ legacy_create_Resp
    \/ NextRequest

Spec == Init /\ [][Next]_vars

----------------------------------------------------------------------------
(* Observations on the request in progress *)

\* The request is a create on one of the cache-backed servers.
CreateOnCache ==
    \/ variant = "tool" /\ req.op = "create_incident"
    \/ variant = "http" /\ req.op = "POST /mcp/incidents"

\* The incident fields of the create call that was sent.
SentIncident ==
    IF variant = "tool" THEN calls[1].body ELSE calls[1].body.incident[2]

\* Some upstream call of this request was rejected.
UpstreamFailed == \E i \in DOMAIN resps : resps[i].k = "err"

\* The last outcome delivered to the handler.
LastResp == resps[Len(resps)]

\* The uniform error shapes: an isError tool result, an HTTP error body.
UniformError ==
    \/ result.kind = "tool" /\ result.isError
    \/ result.kind = "http" /\ result.status >= 400 /\ "error" \in DOMAIN result.body

----------------------------------------------------------------------------
(* C3 *)

\* The severity of a create request names a cached severity: severity_id or
\* severity is a cached id, or severity matches a cached name ignoring case.
SeverityResolvable(a) ==
    \E i \in DOMAIN severities :
        \/ severities[i].id = a.severity_id
        \/ severities[i].id = a.severity
        \/ /\ a.severity \in Strs
           /\ toLowerCase(severities[i].name) = toLowerCase(a.severity)

\* C3: a create request whose severity resolves to no cached severity is
\* answered with a validation error and sends nothing upstream.
C3_UnresolvableSeverityRejected ==
    (CreateOnCache /\ ~SeverityResolvable(req.args))
    => /\ calls = <<>>
       /\ pc = "done"
       /\ UniformError

----------------------------------------------------------------------------
(* C5 *)

\* The inputs that differ from `x` in case only.
CaseVariants(x) == { y \in Strs : toLowerCase(y) = toLowerCase(x) }

\* No entry of `table` has `x` as its id.
NotAnId(table, x) == \A i \in DOMAIN table : table[i].id # x

\* The entries of `table` whose name equals `x` ignoring case.
NamedLike(table, x) ==
    { i \in DOMAIN table : toLowerCase(table[i].name) = toLowerCase(x) }

\* What the severity lookup of the serving process makes of `y`.
SeverityLookup(y) ==
    IF variant = "tool" THEN findSeverityId(y)
    ELSE IF HttpSeverityIndex(y) = 0 THEN Undefined
    ELSE severities[HttpSeverityIndex(y)].id

\* The severity id this create request resolved: the one it sent, or
\* undefined when it was turned down.
SeverityOut == IF calls = <<>> THEN Undefined ELSE Get(SentIncident, "severity_id")

\* The request leaves the severity to the lookup.
SeverityByName ==
    /\ CreateOnCache
    /\ IF variant = "tool" THEN Nullish(req.args.severity_id) ELSE Falsy(req.args.severity_id)
    /\ req.args.severity \in Strs
    /\ ~Falsy(req.args.name) /\ ~Falsy(req.args.summary)

\* The tool request leaves the incident type to the lookup and was sent.
TypeByName ==
    /\ variant = "tool" /\ req.op = "create_incident"
    /\ calls # <<>>
    /\ Nullish(req.args.incident_type_id)
    /\ req.args.incident_type \in Strs

\* The tool request was sent with a status name.
StatusByName ==
    /\ variant = "tool" /\ req.op = "create_incident"
    /\ calls # <<>>
    /\ req.args.status \in Strs

----------------------------------------------------------------------------
(* C6 *)

\* The handler turned the request down for a missing or empty input.
RejectedForInput ==
    \/ /\ req.op = "POST /mcp/incidents"
       /\ result.status = 400
       /\ result.body.error = "Missing required fields"
    \/ /\ req.op = "POST /mcp/incidents/:reference/status"
       /\ result.status = 400
    \/ /\ req.op = "POST /mcp/incidents/:reference/timestamps"
       /\ result.status = 400
    \/ /\ req.op = "edit_incident"
       /\ result = ToolErr(<<"Nothing to update">>)
    \/ /\ req.op \in {"assign_role_to_incident", "revoke_role_from_incident"}
       /\ result = ToolErr(<<"User ID or email is required.">>)

\* C6: a request turned down for a missing or invalid input has sent nothing
\* upstream.
C6_RejectedBeforeUpstream ==
    (pc = "done" /\ RejectedForInput) => calls = <<>>

----------------------------------------------------------------------------
(* C7 *)

\* C7: whenever an upstream call of a request fails, its handler ends with
\* the uniform error result; the failure never leaves the handler.
C7_FailuresCaught ==
    (pc = "done" /\ UpstreamFailed) => (result.kind # "thrown" /\ UniformError)

----------------------------------------------------------------------------
(* C8 *)

\* The tools that take an incident reference.
ReferenceTools ==
    { "get_incident", "edit_incident", "update_incident_status", "list_incident_updates",
      "list_incident_timestamps", "add_incident_timestamp", "assign_role_to_incident",
      "revoke_role_from_incident" }

\* Upstream reported the incident as absent: 404, or a listing without it.
ReportedAbsent ==
    IF req.op = "add_incident_timestamp"
    THEN /\ resps[1].k = "ok"
         /\ FindByReference(resps[1].data.incidents, req.args.reference) = 0
    ELSE LastResp.k = "err" /\ LastResp.status = 404

\* C8: a tool that takes a reference answers `Incident <reference> not found`
\* when upstream reports the incident absent, and the generic failure result
\* with the upstream payload or message on any other upstream failure.
C8_NotFoundOrGeneric ==
    (variant = "tool" /\ req.op \in ReferenceTools /\ pc = "done" /\ resps # <<>>)
    => /\ ReportedAbsent
            => result = ToolErr(<<"Incident ", req.args.reference, " not found">>)
       /\ (LastResp.k = "err" /\ ~ReportedAbsent)
            => result = ToolGeneric(LastResp)

----------------------------------------------------------------------------
(* C9 *)

\* C9: get_incident and GET /mcp/incidents/:reference, asked for a reference
\* upstream has no incident for, answer not-found (isError, HTTP 404) with a
\* message built around exactly the requested reference.
C9_NotFoundNamesReference ==
    /\ (variant = "tool" /\ req.op = "get_incident" /\ pc = "done"
          /\ LastResp.k = "err" /\ LastResp.status = 404)
       => /\ result.kind = "tool"
          /\ result.isError
          /\ result.text = <<"Incident ", req.args.reference, " not found">>
    /\ (variant = "http" /\ req.op = "GET /mcp/incidents/:reference" /\ pc = "done"
          /\ LastResp.k = "ok"
          /\ \A i \in DOMAIN LastResp.data.incidents :
                Get(LastResp.data.incidents[i], "reference") # req.args.reference)
       => /\ result.kind = "http"
          /\ result.status = 404
          /\ result.body.details = <<"No incident found with reference ", req.args.reference>>

\* Not-found has been answered for INC-2: by the tool after a 404, or by the
\* endpoint after a listing that holds INC-1 only.
C9_Witness ==
    /\ pc = "done"
    /\ req.op \in {"get_incident", "GET /mcp/incidents/:reference"}
    /\ req.args.reference = <<"INC-2">>
    /\ \/ /\ variant = "tool"
          /\ LastResp.k = "err" /\ LastResp.status = 404
          /\ result.text = <<"Incident ", <<"INC-2">>, " not found">>
       \/ /\ variant = "http"
          /\ LastResp.k = "ok" /\ Len(LastResp.data.incidents) = 1
          /\ result.status = 404

----------------------------------------------------------------------------
(* C10 *)

\* The incidents of a successful outward payload of the three translating
\* endpoints of index.ts, paired with the upstream incident each came from.
OutwardIncidents ==
    IF ~(variant = "http" /\ pc = "done" /\ result.kind = "http" /\ result.status < 400)
    THEN {}
    ELSE CASE req.op = "GET /mcp/incidents" ->
                { <<result.body.incidents[i], LastResp.data.incidents[i], "custom_fields">> :
                    i \in DOMAIN result.body.incidents }
           [] req.op = "GET /mcp/incidents/:reference" ->
                { <<result.body,
                    LastResp.data.incidents[FindByReference(LastResp.data.incidents, req.args.reference)],
                    "custom_fields">> }
           [] req.op = "POST /mcp/incidents" ->
                { <<result.body, LastResp.data.incident, "custom_field_entries">> }
           [] OTHER -> {}

\* C10: an optional key of an outward incident is there only when upstream
\* supplied a value for it, and never carries null or undefined.
C10_NoNullOptional ==
    \A p \in OutwardIncidents :
        \A k \in OptOutKeys(p[3]) \cap DOMAIN p[1] :
            /\ OptSource(k, p[3]) \in DOMAIN p[2]
            /\ p[1][k] \notin {Null, Undefined}

----------------------------------------------------------------------------
(* refreshCache: the start-up run and the hourly timer *)

\* Runs of refreshCache explored.
MaxRefresh == 2

\* What the reference endpoints can return to a refresh.
FetchedTables ==
    { << [id |-> <<"b">>, name |-> <<"a","B">>] >>,
      << [id |-> <<"b">>, name |-> <<"A">>], [id |-> <<"a">>, name |-> <<"a","B">>] >> }

\* What process.env.API_KEY can hold: unset, empty, the key.
ApiKeys == { Undefined, EmptyStr, <<"API_KEY">> }

\* Module load: the three `let ... = []` and nothing else.
InitCache ==
    /\ variant \in {"tool", "http"}
    /\ apiKey \in ApiKeys
    /\ proc = "start"
    /\ severities = <<>>
    /\ incidentTypes = <<>>
    /\ incidentStatuses = <<>>
    /\ NoRefresh
    /\ UpstreamAny
    /\ probe = NoProbe
    /\ NoRequest

\* A configuration check that only warns.
CheckApiKey_Warn ==
    /\ proc = "start"
    /\ proc' = "up"
    /\ UNCHANGED <<variant, apiKey, severities, incidentTypes, incidentStatuses,
                   refreshes, origin, probe, reqVars, upstream>>

\* The configuration check that opens both programs.
CheckApiKey ==
    /\ proc = "start"
    /\ proc' = IF Falsy(apiKey) THEN "exit(1)" ELSE "up"
    /\ UNCHANGED <<variant, apiKey, severities, incidentTypes, incidentStatuses,
                   refreshes, origin, probe, reqVars, upstream>>

\* Run `n` has returned.
Returned(n) == refreshes[n].pc \in {"done", "failed"}

\* The tables among `new` whose cached value differs from the new one.
Changed(new) ==
    { k \in DOMAIN new :
        new[k] # (CASE k = "severities" -> severities
                    [] k = "incidentTypes" -> incidentTypes
                    [] k = "incidentStatuses" -> incidentStatuses) }

\* A timer that is cleared once a run has failed.
refreshCache_Start_UntilFailure ==
    /\ proc = "up"
    /\ Len(refreshes) < MaxRefresh
    /\ (variant = "tool" /\ refreshes # <<>>) => Returned(1)
    /\ \A n \in DOMAIN refreshes : refreshes[n].pc # "failed"
    /\ refreshes' = Append(refreshes,
                           [pc |-> IF variant = "tool" THEN "all" ELSE "types", changed |-> {}])
    /\ UNCHANGED <<variant, severities, incidentTypes, incidentStatuses, origin,
                   apiKey, proc, probe, reqVars, upstream>>

\* refreshCache() is entered.  README: the first call is awaited before the
\* timer is set.  index.ts: the first call is not awaited, the timer is set
\* right after it; its first await is the incident types request.
refreshCache_Start ==
    /\ proc = "up"
    /\ Len(refreshes) < MaxRefresh
    /\ (variant = "tool" /\ refreshes # <<>>) => Returned(1)
    /\ refreshes' = Append(refreshes,
                           [pc |-> IF variant = "tool" THEN "all" ELSE "types", changed |-> {}])
    /\ UNCHANGED <<variant, severities, incidentTypes, incidentStatuses, origin,
                   apiKey, proc, probe, reqVars, upstream>>

\* README: Promise.all resolves; the three assignments run without an await
\* between them.
refreshCache_Resolve(n, sev, types, statuses) ==
    /\ variant = "tool"
    /\ refreshes[n].pc = "all"
    /\ severities' = sev
    /\ incidentTypes' = types
    /\ incidentStatuses' = statuses
    /\ origin' = [severities |-> n, incidentTypes |-> n, incidentStatuses |-> n]
    /\ refreshes' = [refreshes EXCEPT ![n] =
          [pc |-> "done",
           changed |-> Changed([severities |-> sev, incidentTypes |-> types,
                                incidentStatuses |-> statuses])]]
    /\ UNCHANGED <<variant, apiKey, proc, probe, reqVars, upstream>>

\* README: one of the three requests fails, Promise.all rejects, catch logs.
refreshCache_Reject(n) ==
    /\ variant = "tool"
    /\ refreshes[n].pc = "all"
    /\ refreshes' = [refreshes EXCEPT ![n].pc = "failed"]
    /\ UNCHANGED <<variant, severities, incidentTypes, incidentStatuses, origin,
                   apiKey, proc, probe, reqVars, upstream>>

\* index.ts: the incident types arrive and are assigned; the severities
\* request is awaited next.
http_refreshCache_Types(n, types) ==
    /\ variant = "http"
    /\ refreshes[n].pc = "types"
    /\ incidentTypes' = types
    /\ origin' = [origin EXCEPT !.incidentTypes = n]
    /\ refreshes' = [refreshes EXCEPT ![n] =
          [pc |-> "severities", changed |-> Changed([incidentTypes |-> types])]]
    /\ UNCHANGED <<variant, severities, incidentStatuses, apiKey, proc, probe, reqVars, upstream>>

\* index.ts: the severities arrive and are assigned; the run returns.
http_refreshCache_Severities(n, sev) ==
    /\ variant = "http"
    /\ refreshes[n].pc = "severities"
    /\ severities' = sev
    /\ origin' = [origin EXCEPT !.severities = n]
    /\ refreshes' = [refreshes EXCEPT ![n] =
          [pc |-> "done", changed |-> refreshes[n].changed \cup Changed([severities |-> sev])]]
    /\ UNCHANGED <<variant, incidentTypes, incidentStatuses, apiKey, proc, probe, reqVars, upstream>>

\* index.ts: the request the run is waiting for fails; catch logs.
http_refreshCache_Fail(n) ==
    /\ variant = "http"
    /\ refreshes[n].pc \in {"types", "severities"}
    /\ refreshes' = [refreshes EXCEPT ![n].pc = "failed"]
    /\ UNCHANGED <<variant, severities, incidentTypes, incidentStatuses, origin,
                   apiKey, proc, probe, reqVars, upstream>>

\* Requests are being accepted: README connects its transport once the
\* awaited first refresh has returned, index.ts listens right after calling
\* the first refresh.
Serving ==
    /\ proc = "up"
    /\ refreshes # <<>>
    /\ variant = "tool" => Returned(1)

\* The cache as a reader finds it.
CacheState == <<severities, incidentTypes, incidentStatuses, origin>>

\* A scheduler that lets callbacks run inside a handler's synchronous block.
InTurn_Preemptive == FALSE

\* A create handler is inside the synchronous block that resolves its names.
\* JavaScript runs a callback to completion: until the block ends no other
\* callback (a refresh continuation, a timer, another request) runs.
InTurn == probe.fn = "reading"

\* A create handler resolves its names: it reads the tables one after the
\* other with no await between the reads.  First the severities
\* (README findSeverityId, index.ts severitiesCache.find).
ReadSeverity ==
    /\ Serving
    /\ probe' = [fn |-> "reading", input |-> Undefined,
                 out |-> <<origin.severities>>, seen |-> <<CacheState>>]
    /\ UNCHANGED <<variant, cacheVars, reqVars>>

\* Next the incident types; on index.ts this is the last read.
ReadIncidentType ==
    /\ probe.fn = "reading"
    /\ Len(probe.out) = 1
    /\ probe' = [fn |-> IF variant = "tool" THEN "reading" ELSE "create",
                 input |-> Undefined,
                 out |-> Append(probe.out, origin.incidentTypes),
                 seen |-> Append(probe.seen, CacheState)]
    /\ UNCHANGED <<variant, cacheVars, reqVars>>

\* Last, on the tool server, the statuses (findStatusId).
ReadStatus ==
    /\ variant = "tool"
    /\ probe.fn = "reading"
    /\ Len(probe.out) = 2
    /\ probe' = [fn |-> "create", input |-> Undefined,
                 out |-> Append(probe.out, origin.incidentStatuses),
                 seen |-> Append(probe.seen, CacheState)]
    /\ UNCHANGED <<variant, cacheVars, reqVars>>

NextCache ==
    \/ ~InTurn /\ CheckApiKey
    \/ ~InTurn /\ refreshCache_Start
    \/ ~InTurn /\ \E n \in DOMAIN refreshes : \E sev, types, statuses \in FetchedTables :
          refreshCache_Resolve(n, sev, types, statuses)
    \/ ~InTurn /\ \E n \in DOMAIN refreshes : refreshCache_Reject(n)
    \/ ~InTurn /\ \E n \in DOMAIN refreshes : \E t \in FetchedTables :
          http_refreshCache_Types(n, t)
    \/ ~InTurn /\ \E n \in DOMAIN refreshes : \E t \in FetchedTables :
          http_refreshCache_Severities(n, t)
    \/ ~InTurn /\ \E n \in DOMAIN refreshes : http_refreshCache_Fail(n)
    \/ ~InTurn /\ ReadSeverity
    \/ ReadIncidentType
    \/ ReadStatus
    \/ ~InTurn /\ Serving /\ list_severities_Call
    \/ ~InTurn /\ NextRequest

SpecCache == InitCache /\ [][NextCache]_vars

----------------------------------------------------------------------------
(* C1 *)

\* C1: a refresh that fails has changed none of the cached tables.
C1_FailedRefreshChangesNothing ==
    \A n \in DOMAIN refreshes : refreshes[n].pc = "failed" => refreshes[n].changed = {}

----------------------------------------------------------------------------
(* C2 *)

\* C2: the tables a handler reads that were assigned by a refresh were all
\* assigned by the same one.
C2_OneRefreshPerSnapshot ==
    probe.fn = "create" =>
        \A i, j \in DOMAIN probe.out :
            (probe.out[i] # 0 /\ probe.out[j] # 0) => probe.out[i] = probe.out[j]

----------------------------------------------------------------------------
(* C11 *)

\* The keys GET / documents as always present.
AlwaysPresent ==
    { "id", "reference", "name", "status", "severity", "created_at", "permalink",
      "visibility", "mode", "summary", "incident_type", "postmortem_document_url",
      "slack_channel_id", "slack_channel_name", "slack_team_id", "updated_at" }

\* C11: every incident of a successful outward response carries all sixteen
\* always-present keys, whatever keys the upstream incident defines.
C11_AlwaysPresentKeys ==
    \A p \in OutwardIncidents : AlwaysPresent \subseteq DOMAIN p[1]

----------------------------------------------------------------------------
(* C12 *)

\* C12: a request is handled only once the first refreshCache has returned.
C12_FirstRefreshBeforeServing ==
    probe.fn \in {"reading", "create"} => (refreshes # <<>> /\ Returned(1))

----------------------------------------------------------------------------
(* C13 *)

\* The status of the create request is a string no cached status is named
\* by (index.ts caches no statuses).
UnresolvedStatus ==
    /\ req.args.status \in Strs
    /\ NamedLike(incidentStatuses, req.args.status) = {}

\* The incident type of the create request is a string that is neither the
\* id nor, up to case, the name of a cached incident type.
UnresolvedType ==
    /\ Falsy(req.args.incident_type_id)
    /\ req.args.incident_type \in Strs
    /\ NotAnId(incidentTypes, req.args.incident_type)
    /\ NamedLike(incidentTypes, req.args.incident_type) = {}

\* The create request was turned down over its name, summary or severity.
RejectedOverSeverity ==
    IF variant = "tool"
    THEN result = ToolErr(<<"Invalid severity provided">>)
    ELSE result.status = 400 /\ result.body.error \in {"Missing required fields", "Invalid severity"}

\* C13: an incident type or status that resolves to nothing is no reason to
\* turn a create request down, and the create call that is sent carries no
\* incident_type_id / incident_status_id for it.
C13_UnresolvedOmitted ==
    (CreateOnCache /\ pc # "idle") =>
        /\ calls = <<>> => RejectedOverSeverity
        /\ (calls # <<>> /\ UnresolvedStatus) => "incident_status_id" \notin DOMAIN SentIncident
        /\ (calls # <<>> /\ UnresolvedType) => "incident_type_id" \notin DOMAIN SentIncident

----------------------------------------------------------------------------
(* C14 *)

\* The request being handled is a create that brought no idempotency key.
KeylessCreate ==
    \/ variant = "tool" /\ req.op = "create_incident" /\ Nullish(req.args.idempotency_key)
    \/ variant = "http" /\ req.op = "POST /mcp/incidents" /\ Falsy(req.args.idempotency_key)
    \/ variant = "legacy" /\ req.op = "POST /mcp/incidents"

\* The idempotency key of the create call sent last.
SentKey == calls[Len(calls)].body.idempotency_key

\* C14: a keyless create is sent with a key other than the one generated for
\* the keyless create before it at the same timestamp.
C14_KeylessKeysDiffer ==
    [][ ( /\ KeylessCreate'
          /\ Len(calls') = Len(calls) + 1
          /\ calls'[Len(calls')].method = "POST"
          /\ probe.fn = "idempotency_key"
          /\ probe'.input = probe.input )
        => SentKey' # probe.out ]_vars

----------------------------------------------------------------------------
(* C15 *)

\* The convenience parameters of the request that carry a non-empty value,
\* in the order product, region, feature.
SuppliedConvenience ==
    SelectSeq(<< <<"product", req.args.product>>, <<"region", req.args.region>>,
                 <<"feature", req.args.feature>> >>,
              LAMBDA p : p[2] \notin {Undefined, Null, EmptyStr})

\* C15: the custom_field_entries create_incident sends are the supplied
\* entries, unchanged and in their order, followed by one entry for each
\* non-empty convenience parameter in the order product, region, feature.
C15_CustomFieldsMerged ==
    (variant = "tool" /\ req.op = "create_incident" /\ calls # <<>>) =>
        LET out  == Elems(calls[1].body.custom_field_entries)
            ex   == Elems(req.args.custom_field_entries)
            conv == SuppliedConvenience
        IN  /\ Len(out) = Len(ex) + Len(conv)
            /\ \A i \in 1..Len(ex) : out[i] = ex[i]
            /\ \A j \in 1..Len(conv) :
                  /\ out[Len(ex) + j].custom_field_id = <<conv[j][1]>>
                  /\ out[Len(ex) + j].values = Arr(<< [value_text |-> conv[j][2]] >>)

\* Sent: two supplied entries, product empty, region and feature given.
C15_Witness ==
    /\ variant = "tool" /\ req.op = "create_incident" /\ calls # <<>>
    /\ Len(Elems(req.args.custom_field_entries)) = 2
    /\ req.args.product = EmptyStr
    /\ Len(SuppliedConvenience) = 2
    /\ Len(Elems(calls[1].body.custom_field_entries)) = 4

----------------------------------------------------------------------------
(* C16 *)

\* The operations that resolve a reference and then change the incident.
LookupThenMutate ==
    { "update_incident_status", "edit_incident", "add_incident_timestamp",
      "assign_role_to_incident", "revoke_role_from_incident",
      "POST /mcp/incidents/:reference/status", "POST /mcp/incidents/:reference/timestamps" }

\* The ids of the incidents the answered lookup holds for the reference.
LookedUpIds ==
    IF resps = <<>> \/ resps[1].k # "ok" THEN {}
    ELSE IF "incident" \in DOMAIN resps[1].data
    THEN { resps[1].data.incident.id }
    ELSE LET page == resps[1].data.incidents
             hits == { i \in DOMAIN page : page[i].reference = req.args.reference }
         IN  { page[i].id : i \in { h \in hits : \A g \in hits : h <= g } }

\* The incident id an upstream call is addressed to.
AddressedTo(c) ==
    IF c.path[1] = "incident_memberships" THEN c.body.incident_id ELSE c.path[2]

\* C16: the first call of such an operation is the lookup; a second call is
\* sent only after the lookup has answered with the incident, it is the one
\* change, and it is addressed to the id the lookup returned.
C16_MutateAfterLookup ==
    (variant # "legacy" /\ req.op \in LookupThenMutate) =>
        /\ calls # <<>> => calls[1].method = "GET"
        /\ Len(calls) <= 2
        /\ Len(calls) = 2 =>
              /\ calls[2].method = "POST"
              /\ AddressedTo(calls[2]) \in LookedUpIds

\* The status endpoint has sent its change for INC-1, found second in the
\* page it listed.
C16_Witness ==
    /\ req.op = "POST /mcp/incidents/:reference/status"
    /\ req.args.reference = <<"INC-1">>
    /\ Len(calls) = 2
    /\ Len(resps[1].data.incidents) = 2
    /\ AddressedTo(calls[2]) = <<"01A">>

----------------------------------------------------------------------------
(* C17 *)

\* No refresh has succeeded so far.
NothingFetched == \A n \in DOMAIN refreshes : refreshes[n].pc # "done"

\* C17: list_severities answered while no refresh has succeeded yet is a
\* success carrying the empty list.
C17_EmptyListBeforeData ==
    (req.op = "list_severities" /\ pc = "done" /\ NothingFetched) =>
        /\ result.kind = "tool"
        /\ ~result.isError
        /\ result.text = <<"#json", <<"#array">>>>

\* list_severities has answered after the start-up refresh failed.
C17_Witness ==
    /\ req.op = "list_severities" /\ pc = "done"
    /\ refreshes # <<>> /\ refreshes[1].pc = "failed"
    /\ NothingFetched
    /\ ~result.isError

----------------------------------------------------------------------------
(* C18 *)

\* C18: every upstream call carries the bearer credential built from
\* API_KEY, whatever the inbound request holds.
C18_StaticCredential ==
    \A i \in DOMAIN calls : calls[i].auth = BearerApiKey

----------------------------------------------------------------------------
(* C19 *)

\* C19: with API_KEY unset or empty the process never comes up: it leaves
\* module load only by exit(1), no refresh run (and so no upstream call and
\* no timer run) has started and no request has been handled.
C19_ExitWithoutApiKey ==
    Falsy(apiKey) =>
        /\ proc \in {"start", "exit(1)"}
        /\ refreshes = <<>>
        /\ probe = NoProbe
        /\ req = NoReq /\ calls = <<>>

\* The process has exited for want of API_KEY.
C19_Witness ==
    /\ apiKey = Undefined
    /\ proc = "exit(1)"

----------------------------------------------------------------------------
(* C20 *)

\* C20: the cache reads of one request all find the same cache state.
C20_ReadsSeeOneState ==
    probe.fn \in {"reading", "create"} =>
        \A i, j \in DOMAIN probe.seen : probe.seen[i] = probe.seen[j]

\* A request has done all its reads while a refresh was waiting for
\* upstream, after an earlier refresh had filled the cache.
C20_Witness ==
    /\ probe.fn = "create"
    /\ Len(probe.seen) >= 2
    /\ \E n \in DOMAIN refreshes : ~Returned(n)
    /\ \E n \in DOMAIN refreshes : refreshes[n].pc = "done"

----------------------------------------------------------------------------
(* C21 *)

\* The create call of the request has been sent (the second call on the
\* first express server, which fetches the severities first).
CreateSent ==
    \/ CreateOnCache /\ Len(calls) = 1
    \/ variant = "legacy" /\ req.op = "POST /mcp/incidents" /\ Len(calls) = 2

\* The body of the create call.
CreateBody == calls[Len(calls)].body

\* The values the create call carries for the status, whichever key holds it.
SentStatus ==
    IF variant = "tool" THEN { Get(CreateBody, "incident_status_id") }
    ELSE { Get(CreateBody.incident[2], "status"),
           Get(CreateBody.incident[2], "incident_status_id") }

\* The mode the create call carries.
SentMode ==
    IF variant = "tool" THEN Get(CreateBody, "mode")
    ELSE Get(CreateBody.incident[2], "mode")

\* C21: a create call sent for a request that omits visibility carries
\* visibility 'private'; on the servers that take a mode, one that omits mode
\* carries mode 'standard'; on the HTTP servers, one that omits status
\* carries status 'investigating'.
C21_DefaultsApplied ==
    CreateSent =>
        /\ req.args.visibility = Undefined => Get(CreateBody, "visibility") = <<"private">>
        /\ (variant # "legacy" /\ req.args.mode = Undefined) => SentMode = <<"standard">>
        /\ (variant # "tool" /\ req.args.status = Undefined) => <<"investigating">> \in SentStatus

----------------------------------------------------------------------------
(* C22 *)

\* The last upstream call of a request to an express server was rejected and
\* the handler has answered.
HttpUpstreamFailure ==
    /\ variant \in {"http", "legacy"}
    /\ pc = "done"
    /\ resps # <<>>
    /\ LastResp.k = "err"

\* C22: after an upstream failure an express handler answers with the status
\* upstream answered with, or 500 when upstream did not answer, and with
\* details holding the upstream error payload when there is one and an
\* object with the failure message otherwise.
C22_FailureStatusAndDetails ==
    HttpUpstreamFailure =>
        /\ result.kind = "http"
        /\ result.status = (IF LastResp.response THEN LastResp.status ELSE 500)
        /\ result.body.details =
              (IF LastResp.response /\ LastResp.data = ErrPayload
               THEN ErrPayload
               ELSE Obj([message |-> LastResp.message]))

\* The status change of POST /mcp/incidents/:reference/status was rejected by
\* upstream with 404 and a payload, and the endpoint answered 404 with it.
C22_Witness ==
    /\ HttpUpstreamFailure
    /\ req.op = "POST /mcp/incidents/:reference/status"
    /\ Len(resps) = 2
    /\ LastResp.response /\ LastResp.status = 404 /\ LastResp.data = ErrPayload
    /\ result.status = 404
    /\ result.body.details = ErrPayload

----------------------------------------------------------------------------
(* C23 *)

\* C23: a status lookup whose input equals the id of a cached status returns
\* that id, and one whose input is neither an id nor, ignoring case, a name
\* of a cached status returns undefined.
C23_StatusIdFirst ==
    probe.fn = "findStatusId" =>
        /\ (\E i \in DOMAIN incidentStatuses : incidentStatuses[i].id = probe.input)
              => probe.out = probe.input
        /\ (/\ NotAnId(incidentStatuses, probe.input)
            /\ probe.input \in Strs => NamedLike(incidentStatuses, probe.input) = {})
              => probe.out = Undefined

----------------------------------------------------------------------------
(* C24 *)

\* The request is a status update on a server that has one.
StatusUpdate ==
    \/ variant = "tool" /\ req.op = "update_incident_status"
    \/ variant = "http" /\ req.op = "POST /mcp/incidents/:reference/status"

\* The status of the request is one the server knows: on the tool server the
\* id or, ignoring case, the name of a cached status; on index.ts, which
\* caches no statuses, one of validStatuses.
StatusResolves ==
    IF variant = "tool"
    THEN \/ ~NotAnId(incidentStatuses, req.args.status)
         \/ NamedLike(incidentStatuses, req.args.status) # {}
    ELSE req.args.status \in validStatuses

\* C24: a status update whose status the server does not know is answered
\* with an error and sends nothing upstream, neither the incident lookup nor
\* the status change.
C24_UnresolvedStatusRejected ==
    (StatusUpdate /\ ~StatusResolves) =>
        /\ calls = <<>>
        /\ pc = "done"
        /\ UniformError

----------------------------------------------------------------------------
(* SpecTimer: the timer running for ever against an upstream that is followed *)

\* The tables the running server caches.
CachedTables ==
    IF variant = "tool" THEN {"severities", "incidentTypes", "incidentStatuses"}
    ELSE {"severities", "incidentTypes"}

\* The cached table named `k`.
Cached(k) ==
    CASE k = "severities" -> severities
      [] k = "incidentTypes" -> incidentTypes
      [] OTHER -> incidentStatuses

\* Every cached table holds the table `u`.
CacheHolds(u) == \A k \in CachedTables : Cached(k) = u

\* The process is up with empty caches; upstream holds some table.
InitTimer ==
    /\ variant \in {"tool", "http"}
    /\ Configured
    /\ severities = <<>>
    /\ incidentTypes = <<>>
    /\ incidentStatuses = <<>>
    /\ NoRefresh
    /\ upstream \in FetchedTables
    /\ probe = NoProbe
    /\ NoRequest

\* The reference data changes upstream.
UpstreamChange ==
    /\ upstream' \in FetchedTables \ {upstream}
    /\ UNCHANGED <<variant, apiKey, proc, severities, incidentTypes, incidentStatuses,
                   refreshes, origin, probe, reqVars>>

\* Once MaxRefresh runs have all returned, only the last one is remembered;
\* the timer goes on.
ForgetReturned ==
    /\ Len(refreshes) = MaxRefresh
    /\ \A n \in DOMAIN refreshes : Returned(n)
    /\ refreshes' = << refreshes[Len(refreshes)] >>
    /\ origin' = [k \in DOMAIN origin |-> IF origin[k] = 0 THEN 0 ELSE 1]
    /\ UNCHANGED <<variant, apiKey, proc, severities, incidentTypes, incidentStatuses,
                   upstream, probe, reqVars>>

\* Upstream answers a run with what it holds.
TimerResolve == \E n \in DOMAIN refreshes : refreshCache_Resolve(n, upstream, upstream, upstream)
TimerTypes == \E n \in DOMAIN refreshes : http_refreshCache_Types(n, upstream)
TimerSeverities == \E n \in DOMAIN refreshes : http_refreshCache_Severities(n, upstream)

NextTimer ==
    \/ refreshCache_Start
    \/ TimerResolve
    \/ \E n \in DOMAIN refreshes : refreshCache_Reject(n)
    \/ TimerTypes
    \/ TimerSeverities
    \/ \E n \in DOMAIN refreshes : http_refreshCache_Fail(n)
    \/ UpstreamChange
    \/ ForgetReturned

\* The timer keeps running (setInterval is never cleared) and upstream
\* answers successfully again and again.
SpecTimer ==
    /\ InitTimer
    /\ [][NextTimer]_vars
    /\ WF_vars(refreshCache_Start)
    /\ WF_vars(ForgetReturned)
    /\ SF_vars(TimerResolve)
    /\ SF_vars(TimerTypes)
    /\ SF_vars(TimerSeverities)

----------------------------------------------------------------------------
(* C25 *)

\* C25: refreshCache keeps being started whatever the earlier runs came to,
\* and a table upstream holds is eventually what every cached table holds,
\* unless upstream has changed it again by then.
C25_TimerSurvivesFailure ==
    /\ []<><<refreshCache_Start>>_vars
    /\ \A u \in FetchedTables : (upstream = u) ~> (upstream # u \/ CacheHolds(u))

\* A run failed, a later run succeeded and replaced a cached table, and the
\* cache holds what upstream holds.
C25_Witness ==
    /\ Len(refreshes) = 2
    /\ refreshes[1].pc = "failed"
    /\ refreshes[2].pc = "done"
    /\ refreshes[2].changed # {}
    /\ \E k \in CachedTables : Cached(k) # <<>>
    /\ CacheHolds(upstream)

----------------------------------------------------------------------------
(* C26 *)

\* C26: no cached table is older than a refresh that succeeded: each was
\* assigned by that run or by one started after it.
C26_NewestRefreshWins ==
    \A n \in DOMAIN refreshes :
        refreshes[n].pc = "done" => \A k \in CachedTables : origin[k] >= n

----------------------------------------------------------------------------
(* C27 *)

\* The operations that resolve a reference by listing incidents.
ListingLookups ==
    { "GET /mcp/incidents/:reference", "POST /mcp/incidents/:reference/status",
      "POST /mcp/incidents/:reference/timestamps", "add_incident_timestamp" }

\* The incidents upstream held when it answered the listing.
UpstreamIncidents == resps[1].data.incidents \o resps[1].beyond

\* The operation answered that the incident does not exist.
AnsweredNotFound ==
    IF variant = "tool"
    THEN result = ToolErr(<<"Incident ", req.args.reference, " not found">>)
    ELSE result = HttpNotFound(req.args.reference)

\* C27: such an operation answers not-found only when upstream holds no
\* incident with the requested reference.
C27_NotFoundOnlyIfAbsent ==
    (variant # "legacy" /\ req.op \in ListingLookups /\ pc = "done" /\ AnsweredNotFound)
    => \A i \in DOMAIN UpstreamIncidents : UpstreamIncidents[i].reference # req.args.reference

----------------------------------------------------------------------------
(* C28 *)

\* A create request with its name and summary given has been taken up.
CreateTaken ==
    /\ CreateOnCache
    /\ ~Falsy(req.args.name) /\ ~Falsy(req.args.summary)

\* C28: a create request that gives a severity_id is sent with that very id,
\* whatever its severity name is; one whose severity_id is absent or empty
\* and whose severity name the lookup resolves is sent with the id the
\* lookup returns.
C28_SeverityIdThenName ==
    CreateTaken =>
        /\ ~Falsy(req.args.severity_id) =>
              /\ calls # <<>>
              /\ SeverityOut = req.args.severity_id
        /\ (/\ Falsy(req.args.severity_id)
            /\ req.args.severity \in Strs
            /\ SeverityLookup(req.args.severity) # Undefined) =>
              /\ calls # <<>>
              /\ SeverityOut = SeverityLookup(req.args.severity)

----------------------------------------------------------------------------
(* C29 *)

\* The request is an edit_incident.
EditRequest == variant = "tool" /\ req.op = "edit_incident"

\* The keys among name and summary the caller gave a non-empty value for.
EditGiven == { k \in {"name", "summary"} : req.args[k] \notin {Undefined, Null, EmptyStr} }

\* The changing calls of the request.
MutatingCalls == { i \in DOMAIN calls : calls[i].method # "GET" }

\* Every changing call carries exactly the given keys with the given values.
OnlyGivenSent ==
    \A i \in MutatingCalls :
        /\ DOMAIN calls[i].body = EditGiven
        /\ \A k \in EditGiven : calls[i].body[k] = req.args[k]

\* C29: the changing call of edit_incident carries exactly the
\* given keys, and with neither key given there is no changing call and the
\* answer is "Nothing to update".
C29_EditOnlySupplied ==
    EditRequest =>
        /\ OnlyGivenSent
        /\ EditGiven = {} =>
              /\ MutatingCalls = {}
              /\ pc = "done" => result = ToolErr(<<"Nothing to update">>)

----------------------------------------------------------------------------
(* C30 *)

\* C30: an incident of a successful outward response is what each of the
\* three translators makes of the upstream incident it came from, and its
\* keys are among those GET / documents (custom_field_entries among them).
C30_TranslatorsAgree ==
    \A p \in OutwardIncidents :
        /\ p[1] = Json(TransformListed(p[2]))
        /\ p[1] = Json(TransformFetched(p[2]))
        /\ p[1] = Json(TransformCreated(p[2]))
        /\ DOMAIN p[1] \subseteq AlwaysPresent \cup OptUpKeys

====
